---- MODULE Spec2Model ----
(***************************************************************************)
(* A model of the sneakernet backend (src-tauri/src): the NFC exchange     *)
(* protocol (exchange.rs), the relationship key derivation                 *)
(* (iroh_derive.rs) and the commands that tie them together (commands.rs). *)
(*                                                                         *)
(* Strings are sequences of one-character strings, byte strings are        *)
(* sequences of numbers 0..255, Option<T> is a sequence of length 0 (None) *)
(* or 1 (Some).  SHA-256, HKDF and Schnorr signatures are symbolic: a      *)
(* digest records its input, a signature records the signing key and the  *)
(* digest, so two of them are equal exactly when their inputs are.         *)
(***************************************************************************)
EXTENDS Integers, Sequences, FiniteSets, TLC

VARIABLES
    now,        \* the system clock, in seconds since the epoch
    msg,        \* the ExchangeMessage at hand (as created, or as received)
    orig,       \* the message as ExchangeMessage::new returned it
    call,       \* the call that made orig: new_initial or new_response
    expected,   \* expected_our_pubkey of the last verify call
    result,     \* what the last verify call on msg returned
    pairing,    \* the pairing of two parties: its step and what each derived
    dcall,      \* the last call of derive_iroh_keypair: arguments and result
    dprev,      \* the call of derive_iroh_keypair before the last
    endpoint,         \* IrohNode.endpoint: None or Some(endpoint)
    current_contact,  \* IrohNode.current_contact
    connections,      \* IrohNode.connections: contact pubkey -> Connection
    nodeOp,           \* the IrohNode call in flight, suspended at an await
    nodeResult,       \* what the last IrohNode call returned
    lastStatus,       \* what status() returned, while the node is as it was
    alive,            \* how many endpoints are bound to the network
    nextConn,         \* the connections made so far, plus one
    sessions,         \* ChatManager.sessions: contact pubkey -> ChatSession
    chatOp,           \* the ChatManager call in flight, suspended at an await
    chatResult,       \* what the last ChatManager call returned
    outStream,        \* what the last send_message put on its stream
    nextMsgId,        \* the message ids drawn so far, plus one
    issued,           \* per contact, the ids in the order the calls stored them
    app_keys,         \* AppState.keys, as stored under "nostr_keys"
    contacts,         \* the contact list stored under "contacts"
    ceOp,             \* per task, the complete_exchange between its load and save
    delOp,            \* the delete_contact between its load and save
    verified,         \* the pubkeys of the messages start_nfc_scan has accepted
    nextContactId,    \* the contact ids drawn so far, plus one
    codec,            \* the last message serialised and parsed back
    accepted,         \* the messages verify has accepted, in order: pubkey, timestamp, nonce
    history,          \* what get_messages returned last, and for which contact
    historyWas        \* the messages that contact's session held at that call

exchangeVars == <<now, msg, orig, call, expected, result>>
pairingVars == <<pairing>>
deriveVars == <<dcall, dprev>>
nodeVars == <<endpoint, current_contact, connections, nodeOp, nodeResult,
              lastStatus, alive, nextConn>>
chatVars == <<sessions, chatOp, chatResult, outStream, nextMsgId, issued>>
storeVars == <<app_keys, contacts, ceOp, delOp, verified, nextContactId>>
historyVars == <<history, historyWas>>
appVars == <<storeVars, codec, accepted, historyVars>>
vars == <<now, msg, orig, call, expected, result, pairing, dcall, dprev, nodeVars,
          chatVars, appVars>>

(***************************************************************************)
(* Bounds of the model.                                                    *)
(***************************************************************************)
\* The clock is not advanced past MaxNow.
MaxNow == 302

\* No more than MaxConns connections are made.
MaxConns == 3

\* No more than MaxMsgs messages are sent, and no session holds more.
MaxMsgs == 2
MaxAccepted == 2
MaxContacts == 3

(***************************************************************************)
(* Option<T>, strings, hex.                                                *)
(***************************************************************************)
None == <<>>
Some(x) == <<x>>
IsSome(o) == Len(o) = 1
Unwrap(o) == o[1]

\* Option::as_deref().unwrap_or("")
UnwrapOrEmpty(o) == IF IsSome(o) THEN o[1] ELSE <<>>

HexDigits == <<"0", "1", "2", "3", "4", "5", "6", "7",
               "8", "9", "a", "b", "c", "d", "e", "f">>
UpperHexDigits == <<"0", "1", "2", "3", "4", "5", "6", "7",
                    "8", "9", "A", "B", "C", "D", "E", "F">>

\* A character that hex::decode accepts: 0-9, a-f, A-F.
IsHexChar(c) == \E i \in 1..16 : HexDigits[i] = c \/ UpperHexDigits[i] = c

\* The value of a hex character (upper and lower case alike).
HexVal(c) == (CHOOSE i \in 1..16 : HexDigits[i] = c \/ UpperHexDigits[i] = c) - 1

\* hex::decode succeeds on an even number of hex characters.
HexDecodable(s) == Len(s) % 2 = 0 /\ \A i \in 1..Len(s) : IsHexChar(s[i])

\* hex::decode: two characters per byte, high nibble first.
HexDecode(s) == [i \in 1..(Len(s) \div 2) |->
                    16 * HexVal(s[2 * i - 1]) + HexVal(s[2 * i])]

\* hex::encode: lower-case, two characters per byte.
HexEncode(b) == [i \in 1..(2 * Len(b)) |->
                    IF i % 2 = 1 THEN HexDigits[(b[(i + 1) \div 2] \div 16) + 1]
                                 ELSE HexDigits[(b[i \div 2] % 16) + 1]]

\* The decimal digits of an unsigned integer, as `{}` formats it.
RECURSIVE Decimal(_)
Decimal(n) == IF n < 10 THEN <<HexDigits[n + 1]>>
              ELSE Decimal(n \div 10) \o <<HexDigits[(n % 10) + 1]>>

(***************************************************************************)
(* Identities (nostr Keys).  A secret key is 32 bytes; the x-only public   *)
(* key that belongs to it is shortened to 2 bytes here.                    *)
(***************************************************************************)
Identities == {1, 2}

SecretKeyLen == 32

\* Keys::secret_key() of identity i, as bytes.
SecretKeyOf(i) == [k \in 1..SecretKeyLen |-> i]

\* The x-only public key of identity i, as bytes.
XOnlyOf(i) == <<160 + i, 16 * i + 1>>

\* keys.public_key().to_hex()
PublicKeyHex(i) == HexEncode(XOnlyOf(i))

\* The x-only public key that belongs to a secret key.
XOnlyOfSecret(sk) == XOnlyOf(CHOOSE i \in Identities : SecretKeyOf(i) = sk)

\* PublicKey::from_hex succeeds on the hex of a point of the curve.
PublicKeyParses(hex) ==
    /\ HexDecodable(hex)
    /\ \E i \in Identities : HexDecode(hex) = XOnlyOf(i)

(***************************************************************************)
(* exchange.rs                                                             *)
(***************************************************************************)
PROTOCOL_VERSION == 1

MSG_TYPE == "sneakernet-exchange"

StalenessWindow == 300

\* SHA-256 of a byte string.
hash_content(content) == [sha256 |-> content]

Colon == <<":">>

\* format!("sneakernet:{}:{}:{}:{}", pubkey, their_pubkey or "", timestamp, nonce)
SignedContent(pubkey, their_pubkey, timestamp, nonce) ==
    <<"s", "n", "e", "a", "k", "e", "r", "n", "e", "t">> \o Colon
        \o pubkey \o Colon
        \o UnwrapOrEmpty(their_pubkey) \o Colon
        \o Decimal(timestamp) \o Colon
        \o nonce

\* secp.sign_schnorr(&message, &keypair), hex-encoded.
SignSchnorr(digest, sk) == [signer |-> sk, digest |-> digest]

\* The signature field of a message is a hex-encoded signature or, when the
\* payload did not come from ExchangeMessage::new, any other string.
BadSignature == [raw |-> <<"z", "z">>]

\* hex::decode and Signature::from_slice accept the string.
SignatureParses(sig) == "signer" \in DOMAIN sig

\* secp.verify_schnorr(&signature, &message, &xonly).  (XOnlyPublicKey::from_slice
\* on the bytes of a PublicKey that parsed, lines 184-186, cannot fail.)
VerifySchnorr(sig, digest, xonly) ==
    /\ XOnlyOfSecret(sig.signer) = xonly
    /\ sig.digest = digest

\* new, had it signed the content of an initial message whatever their_pubkey is.
new_signs_without_their_pubkey(i, their_pubkey, timestamp, nonce) ==
    LET pubkey == PublicKeyHex(i)
        content == SignedContent(pubkey, None, timestamp, nonce)
    IN [version      |-> PROTOCOL_VERSION,
        msg_type     |-> MSG_TYPE,
        pubkey       |-> pubkey,
        their_pubkey |-> their_pubkey,
        timestamp    |-> timestamp,
        nonce        |-> nonce,
        signature    |-> SignSchnorr(hash_content(content), SecretKeyOf(i))]

\* ExchangeMessage::new
new(i, their_pubkey, timestamp, nonce) ==
    LET pubkey == PublicKeyHex(i)
        content == SignedContent(pubkey, their_pubkey, timestamp, nonce)
    IN [version      |-> PROTOCOL_VERSION,
        msg_type     |-> MSG_TYPE,
        pubkey       |-> pubkey,
        their_pubkey |-> their_pubkey,
        timestamp    |-> timestamp,
        nonce        |-> nonce,
        signature    |-> SignSchnorr(hash_content(content), SecretKeyOf(i))]

new_initial(i, timestamp, nonce) == new(i, None, timestamp, nonce)

new_response(i, their_pubkey, timestamp, nonce) ==
    new(i, Some(their_pubkey), timestamp, nonce)

Ok == [kind |-> "Ok"]
Err(kind) == [kind |-> kind]

(***************************************************************************)
(* to_json / from_json: a JSON object is a record of its members, a member *)
(* a string, a number or null.  The members are named in camelCase, and    *)
(* msg_type is renamed to type.                                            *)
(***************************************************************************)
JsonNull == [null |-> TRUE]
JsonString(s) == [string |-> s]
JsonNumber(n) == [number |-> n]
IsJsonString(v) == DOMAIN v = {"string"}
IsJsonNumber(v) == DOMAIN v = {"number"}

\* to_json, had it written an absent their_pubkey as the empty string.
to_json_none_as_empty(m) ==
    [version     |-> JsonNumber(m.version),
     type        |-> JsonString(m.msg_type),
     pubkey      |-> JsonString(m.pubkey),
     theirPubkey |-> JsonString(UnwrapOrEmpty(m.their_pubkey)),
     timestamp   |-> JsonNumber(m.timestamp),
     nonce       |-> JsonString(m.nonce),
     signature   |-> JsonString(m.signature)]

\* ExchangeMessage::to_json
to_json(m) ==
    [version     |-> JsonNumber(m.version),
     type        |-> JsonString(m.msg_type),
     pubkey      |-> JsonString(m.pubkey),
     theirPubkey |-> IF m.their_pubkey = None THEN JsonNull
                     ELSE JsonString(Unwrap(m.their_pubkey)),
     timestamp   |-> JsonNumber(m.timestamp),
     nonce       |-> JsonString(m.nonce),
     signature   |-> JsonString(m.signature)]

\* ExchangeMessage::from_json: every member but theirPubkey must be there
\* with its type; theirPubkey may be missing or null.
from_json(json) ==
    IF /\ {"version", "type", "pubkey", "timestamp", "nonce", "signature"}
             \subseteq DOMAIN json
       /\ IsJsonNumber(json.version) /\ IsJsonNumber(json.timestamp)
       /\ \A k \in {"type", "pubkey", "nonce", "signature"} : IsJsonString(json[k])
       /\ "theirPubkey" \in DOMAIN json =>
              json.theirPubkey = JsonNull \/ IsJsonString(json.theirPubkey)
    THEN [kind |-> "Ok",
          message |->
              [version      |-> json.version.number,
               msg_type     |-> json.type.string,
               pubkey       |-> json.pubkey.string,
               their_pubkey |-> IF "theirPubkey" \in DOMAIN json
                                   /\ json.theirPubkey # JsonNull
                                THEN Some(json.theirPubkey.string) ELSE None,
               timestamp    |-> json.timestamp.number,
               nonce        |-> json.nonce.string,
               signature    |-> json.signature.string]]
    ELSE Err("InvalidFormat")

\* VersionMismatch, had expected and got been swapped.
VersionMismatchSwapped(m) ==
    [kind |-> "VersionMismatch", expected |-> m.version, got |-> PROTOCOL_VERSION]

VersionMismatch(m) ==
    [kind |-> "VersionMismatch", expected |-> PROTOCOL_VERSION, got |-> m.version]

\* Lines 164-191: the signature is one over this message's own fields, made
\* with the key that the pubkey field names.
SignatureVerifies(m) ==
    LET content == SignedContent(m.pubkey, m.their_pubkey, m.timestamp, m.nonce)
    IN /\ SignatureParses(m.signature)
       /\ VerifySchnorr(m.signature, hash_content(content), HexDecode(m.pubkey))

\* The pubkey check, had it required a response to name us.
TheirPubkeyMismatchOrAbsent(m, expected_our_pubkey) ==
    /\ IsSome(expected_our_pubkey)
    /\ \/ ~IsSome(m.their_pubkey)
       \/ Unwrap(m.their_pubkey) # Unwrap(expected_our_pubkey)

\* Lines 194-200.
TheirPubkeyMismatch(m, expected_our_pubkey) ==
    /\ IsSome(expected_our_pubkey)
    /\ IsSome(m.their_pubkey)
    /\ Unwrap(m.their_pubkey) # Unwrap(expected_our_pubkey)

\* The staleness check, had it used >= for >.
IsExpiredInclusive(t, timestamp) == t > timestamp /\ t - timestamp >= StalenessWindow

\* The staleness check, had it subtracted without asking now > timestamp
\* first: for timestamp > now the u64 difference wraps to
\* 2^64 - (timestamp - now), which is above the window.
IsExpiredUnguarded(t, timestamp) ==
    IF t >= timestamp THEN t - timestamp > StalenessWindow ELSE TRUE

\* now - timestamp on u64: defined when now >= timestamp; otherwise the
\* subtraction overflows (a panic, or a wrapped value).
U64Sub(a, b) ==
    IF a >= b THEN [kind |-> "Ok", value |-> a - b] ELSE [kind |-> "Overflow"]

\* Line 208.
IsExpired(t, timestamp) == t > timestamp /\ t - timestamp > StalenessWindow

\* verify, had it checked freshness before the signature.
verify_freshness_first(m, expected_our_pubkey, t) ==
    IF m.version # PROTOCOL_VERSION THEN VersionMismatch(m)
    ELSE IF m.msg_type # MSG_TYPE THEN Err("InvalidFormat")
    ELSE IF ~PublicKeyParses(m.pubkey) THEN Err("InvalidPubkey")
    ELSE IF IsExpired(t, m.timestamp) THEN Err("MessageExpired")
    ELSE IF ~SignatureVerifies(m) THEN Err("SignatureVerificationFailed")
    ELSE IF TheirPubkeyMismatch(m, expected_our_pubkey) THEN Err("PubkeyMismatch")
    ELSE Ok

\* ExchangeMessage::verify, with the clock reading t.
verify(m, expected_our_pubkey, t) ==
    IF m.version # PROTOCOL_VERSION THEN VersionMismatch(m)
    ELSE IF m.msg_type # MSG_TYPE THEN Err("InvalidFormat")
    ELSE IF ~PublicKeyParses(m.pubkey) THEN Err("InvalidPubkey")
    ELSE IF ~SignatureVerifies(m) THEN Err("SignatureVerificationFailed")
    ELSE IF TheirPubkeyMismatch(m, expected_our_pubkey) THEN Err("PubkeyMismatch")
    ELSE IF IsExpired(t, m.timestamp) THEN Err("MessageExpired")
    ELSE Ok

(***************************************************************************)
(* iroh_derive.rs                                                          *)
(***************************************************************************)
\* Hkdf::<Sha256>::new(Some(&salt), ikm) followed by expand(info, 32 bytes).
HkdfSha256(salt, ikm, info) == [hkdf_salt |-> salt, ikm |-> ikm, info |-> info]

INFO == "sneakernet-iroh-v1"

\* Vec<u8> < Vec<u8>: lexicographic, a proper prefix is the smaller.
BytesLess(a, b) ==
    LET n == IF Len(a) < Len(b) THEN Len(a) ELSE Len(b)
        diff == {i \in 1..n : a[i] # b[i]}
    IN IF diff = {} THEN Len(a) < Len(b)
       ELSE LET i == CHOOSE k \in diff : \A j \in diff : k <= j
            IN a[i] < b[i]

\* Lines 46-57: the salt, had the pubkeys been hashed as given (mine first).
SaltUnsorted(my_pubkey_bytes, their_pubkey_bytes) ==
    hash_content(my_pubkey_bytes \o their_pubkey_bytes)

\* Lines 46-57: the SHA-256 of the two pubkeys, the smaller first.
Salt(my_pubkey_bytes, their_pubkey_bytes) ==
    IF BytesLess(my_pubkey_bytes, their_pubkey_bytes)
    THEN hash_content(my_pubkey_bytes \o their_pubkey_bytes)
    ELSE hash_content(their_pubkey_bytes \o my_pubkey_bytes)

\* IrohSecretKey::from_bytes(&seed) and its public().
IrohKeypair(seed) ==
    [kind |-> "Ok", secret_key |-> [seed |-> seed], public_key |-> [public_of |-> seed]]

\* derive_iroh_keypair, had it decoded the pubkeys before looking at the secret.
derive_decodes_first(nostr_secret_key, my_pubkey_hex, their_pubkey_hex) ==
    IF ~HexDecodable(my_pubkey_hex) THEN Err("InvalidPublicKey")
    ELSE IF ~HexDecodable(their_pubkey_hex) THEN Err("InvalidPublicKey")
    ELSE IF Len(nostr_secret_key) # SecretKeyLen THEN Err("InvalidSecretKeyLength")
    ELSE IrohKeypair(HkdfSha256(Salt(HexDecode(my_pubkey_hex),
                                     HexDecode(their_pubkey_hex)),
                                nostr_secret_key, INFO))

\* derive_iroh_keypair
derive_iroh_keypair(nostr_secret_key, my_pubkey_hex, their_pubkey_hex) ==
    IF Len(nostr_secret_key) # SecretKeyLen THEN Err("InvalidSecretKeyLength")
    ELSE IF ~HexDecodable(my_pubkey_hex) THEN Err("InvalidPublicKey")
    ELSE IF ~HexDecodable(their_pubkey_hex) THEN Err("InvalidPublicKey")
    ELSE IrohKeypair(HkdfSha256(Salt(HexDecode(my_pubkey_hex),
                                     HexDecode(their_pubkey_hex)),
                                nostr_secret_key, INFO))

(***************************************************************************)
(* iroh_node.rs: IrohNode.  A call takes &mut self, so one call is in      *)
(* flight at a time; it is suspended at its await (bind, close, connect),  *)
(* where the transport answers or the caller drops the future.             *)
(***************************************************************************)
\* The identity this node belongs to.
LocalIdentity == 1

\* The contacts' nostr pubkeys.
ContactKeys == {PublicKeyHex(2), HexEncode(XOnlyOf(3))}

\* The secrets start_for_contact is called with: the local one, and one that
\* is too short.
StartSecrets == {SecretKeyOf(LocalIdentity),
                 [k \in 1..(SecretKeyLen \div 2) |-> LocalIdentity]}

\* secret_key.public(), endpoint.node_id()
NodeIdOf(secret_key) == [public_of |-> secret_key.seed]

\* NodeId::to_string: the base32 text of a node id.
NodeIdString(node_id) == [base32 |-> node_id]

\* their_node_id.parse::<NodeId>() succeeds on the base32 text of a node id.
NodeIdParses(text) == "base32" \in DOMAIN text

\* The node ids connect_to_contact is called with: what the contacts derived
\* for their side, and a text that is no node id.
BadNodeId == [raw |-> "not-a-node-id"]
RemoteNodeIds ==
    {NodeIdString(derive_iroh_keypair(SecretKeyOf(2), PublicKeyHex(2),
                                      PublicKeyHex(LocalIdentity)).public_key),
     BadNodeId}

Idle == [pc |-> "idle"]
NoStatus == [running |-> "unknown"]
NoConnections == [k \in {} |-> 0]

\* IrohNode::new
InitNode ==
    /\ endpoint = None
    /\ current_contact = None
    /\ connections = NoConnections
    /\ nodeOp = Idle
    /\ nodeResult = [op |-> "none"]
    /\ lastStatus = NoStatus
    /\ alive = 0
    /\ nextConn = 1

Returned(op, ret) == [op |-> op, ret |-> ret]

\* connections.insert(contact_pubkey, conn), had it kept an entry already there.
InsertIfAbsent(table, key, conn) ==
    IF key \in DOMAIN table THEN table
    ELSE [k \in DOMAIN table \cup {key} |-> IF k = key THEN conn ELSE table[k]]

\* connections.insert(contact_pubkey, conn)
Insert(table, key, conn) ==
    [k \in DOMAIN table \cup {key} |-> IF k = key THEN conn ELSE table[k]]

\* start_for_contact up to its await, had it not looked at self.endpoint.
StartUnchecked(nostr_secret_key, their_pubkey_hex) ==
    LET derived == derive_iroh_keypair(nostr_secret_key, PublicKeyHex(LocalIdentity),
                                       their_pubkey_hex)
    IN /\ nodeOp = Idle
       /\ IF derived.kind # "Ok"
          THEN /\ nodeResult' = Returned("start", Err("KeyDerivation"))
               /\ UNCHANGED nodeOp
          ELSE /\ nodeOp' = [pc |-> "bind", secret_key |-> derived.secret_key,
                             their_pubkey_hex |-> their_pubkey_hex]
               /\ UNCHANGED nodeResult
       /\ lastStatus' = NoStatus
       /\ UNCHANGED <<endpoint, current_contact, connections, alive, nextConn>>

\* start_for_contact up to its await, lines 92-112.
Start(nostr_secret_key, their_pubkey_hex) ==
    LET derived == derive_iroh_keypair(nostr_secret_key, PublicKeyHex(LocalIdentity),
                                       their_pubkey_hex)
    IN /\ nodeOp = Idle
       /\ IF endpoint # None
          THEN /\ nodeResult' = Returned("start", Err("AlreadyRunning"))
               /\ UNCHANGED nodeOp
          ELSE IF derived.kind # "Ok"
          THEN /\ nodeResult' = Returned("start", Err("KeyDerivation"))
               /\ UNCHANGED nodeOp
          ELSE /\ nodeOp' = [pc |-> "bind", secret_key |-> derived.secret_key,
                             their_pubkey_hex |-> their_pubkey_hex]
               /\ UNCHANGED nodeResult
       /\ lastStatus' = NoStatus
       /\ UNCHANGED <<endpoint, current_contact, connections, alive, nextConn>>

\* bind() returned an endpoint: lines 116-120.  (Assigning self.endpoint drops
\* the endpoint it held, if any.)
BindDone ==
    /\ nodeOp.pc = "bind"
    /\ alive' = IF endpoint = None THEN alive + 1 ELSE alive
    /\ endpoint' = Some([secret_key |-> nodeOp.secret_key])
    /\ current_contact' = Some(nodeOp.their_pubkey_hex)
    /\ nodeResult' = Returned("start",
                              [kind |-> "Ok",
                               node_id |-> NodeIdString(NodeIdOf(nodeOp.secret_key))])
    /\ nodeOp' = Idle
    /\ lastStatus' = NoStatus
    /\ UNCHANGED <<connections, nextConn>>

\* bind() failed: line 114.
BindFail ==
    /\ nodeOp.pc = "bind"
    /\ nodeResult' = Returned("start", Err("EndpointCreation"))
    /\ nodeOp' = Idle
    /\ lastStatus' = NoStatus
    /\ UNCHANGED <<endpoint, current_contact, connections, alive, nextConn>>

\* stop up to its await, had it left the connections in the table.
StopKeepsConnections ==
    /\ nodeOp = Idle
    /\ IF endpoint = None
       THEN /\ nodeResult' = Returned("stop", Ok)
            /\ UNCHANGED <<endpoint, nodeOp>>
       ELSE /\ endpoint' = None
            /\ nodeOp' = [pc |-> "close", endpoint |-> Unwrap(endpoint)]
            /\ UNCHANGED nodeResult
    /\ lastStatus' = NoStatus
    /\ UNCHANGED <<connections, current_contact, alive, nextConn>>

\* stop up to its await, lines 125-130.
Stop ==
    /\ nodeOp = Idle
    /\ IF endpoint = None
       THEN /\ nodeResult' = Returned("stop", Ok)
            /\ UNCHANGED <<endpoint, connections, nodeOp>>
       ELSE /\ endpoint' = None
            /\ connections' = NoConnections
            /\ nodeOp' = [pc |-> "close", endpoint |-> Unwrap(endpoint)]
            /\ UNCHANGED nodeResult
    /\ lastStatus' = NoStatus
    /\ UNCHANGED <<current_contact, alive, nextConn>>

\* endpoint.close() returned (its result is ignored): lines 130-134.
CloseDone ==
    /\ nodeOp.pc = "close"
    /\ alive' = alive - 1
    /\ current_contact' = None
    /\ nodeResult' = Returned("stop", Ok)
    /\ nodeOp' = Idle
    /\ lastStatus' = NoStatus
    /\ UNCHANGED <<endpoint, connections, nextConn>>

\* What connect_to_contact returned before its await, and for which node id.
Refused(their_node_id, ret) ==
    [op |-> "connect", ret |-> ret, their_node_id |-> their_node_id]

\* connect_to_contact up to its await, had it parsed the node id first.
connect_parses_first(their_node_id, contact_pubkey) ==
    /\ nodeOp = Idle
    /\ nextConn <= MaxConns
    /\ IF ~NodeIdParses(their_node_id)
       THEN /\ nodeResult' = Refused(their_node_id, Err("InvalidNodeId"))
            /\ UNCHANGED nodeOp
       ELSE IF endpoint = None
       THEN /\ nodeResult' = Refused(their_node_id, Err("NotStarted"))
            /\ UNCHANGED nodeOp
       ELSE /\ nodeOp' = [pc |-> "connect", node_id |-> their_node_id.base32,
                          contact_pubkey |-> contact_pubkey]
            /\ UNCHANGED nodeResult
    /\ lastStatus' = NoStatus
    /\ UNCHANGED <<endpoint, current_contact, connections, alive, nextConn>>

\* connect_to_contact up to its await, lines 153-163.
Connect(their_node_id, contact_pubkey) ==
    /\ nodeOp = Idle
    /\ nextConn <= MaxConns
    /\ IF endpoint = None
       THEN /\ nodeResult' = Refused(their_node_id, Err("NotStarted"))
            /\ UNCHANGED nodeOp
       ELSE IF ~NodeIdParses(their_node_id)
       THEN /\ nodeResult' = Refused(their_node_id, Err("InvalidNodeId"))
            /\ UNCHANGED nodeOp
       ELSE /\ nodeOp' = [pc |-> "connect", node_id |-> their_node_id.base32,
                          contact_pubkey |-> contact_pubkey]
            /\ UNCHANGED nodeResult
    /\ lastStatus' = NoStatus
    /\ UNCHANGED <<endpoint, current_contact, connections, alive, nextConn>>

\* endpoint.connect() returned a connection: lines 166-168.
ConnectDone ==
    /\ nodeOp.pc = "connect"
    /\ connections' = Insert(connections, nodeOp.contact_pubkey,
                             [id |-> nextConn, remote |-> nodeOp.node_id])
    /\ nextConn' = nextConn + 1
    /\ nodeResult' = Returned("connect", Ok)
    /\ nodeOp' = Idle
    /\ lastStatus' = NoStatus
    /\ UNCHANGED <<endpoint, current_contact, alive>>

\* endpoint.connect() failed: line 164.
ConnectFail ==
    /\ nodeOp.pc = "connect"
    /\ nodeResult' = Returned("connect", Err("ConnectionFailed"))
    /\ nodeOp' = Idle
    /\ lastStatus' = NoStatus
    /\ UNCHANGED <<endpoint, current_contact, connections, alive, nextConn>>

\* The caller drops the future of the call in flight; an endpoint that stop
\* had taken out of the node is dropped with it.
Abort ==
    /\ nodeOp # Idle
    /\ alive' = IF nodeOp.pc = "close" THEN alive - 1 ELSE alive
    /\ nodeResult' = Returned(nodeOp.pc, [kind |-> "dropped"])
    /\ nodeOp' = Idle
    /\ lastStatus' = NoStatus
    /\ UNCHANGED <<endpoint, current_contact, connections, nextConn>>

\* status(), had it told running from current_contact.
status_by_contact ==
    [running            |-> current_contact # None,
     node_id            |-> IF endpoint = None THEN None
                            ELSE Some(NodeIdString(NodeIdOf(Unwrap(endpoint).secret_key))),
     relay_url          |-> None,
     connected_contacts |-> DOMAIN connections]

\* status(), lines 138-145; connected_contacts in no particular order.
status ==
    [running            |-> endpoint # None,
     node_id            |-> IF endpoint = None THEN None
                            ELSE Some(NodeIdString(NodeIdOf(Unwrap(endpoint).secret_key))),
     relay_url          |-> None,
     connected_contacts |-> DOMAIN connections]

\* A call of status(): it takes &self, while no &mut self call is in flight.
Status ==
    /\ nodeOp = Idle
    /\ lastStatus' = status
    /\ UNCHANGED <<endpoint, current_contact, connections, nodeOp, nodeResult,
                   alive, nextConn>>

(***************************************************************************)
(* chat.rs: ChatMessage and its wire form.  A text is its visible          *)
(* characters followed by pad filler characters; a message id is the       *)
(* number of the uuid drawn.  Bytes on a stream are a JSON object, or       *)
(* something else of a given length.                                       *)
(***************************************************************************)
MAX_MESSAGE_SIZE == 65536

\* Uuid::to_string gives 36 characters.
UuidLen == 36

Text(t) == [text |-> t, pad |-> 0]
Filler(n) == [text |-> "", pad |-> n]
StrLen(content) == Len(content.text) + content.pad

\* The bytes serde_json writes for one field: "key":value followed by a comma
\* or the closing brace.  None of the texts needs escaping.
FieldLen(object, key) ==
    Len(key) + 2 + 1 + 1 +
    CASE key = "id"        -> UuidLen + 2
      [] key = "content"   -> StrLen(object[key]) + 2
      [] key = "timestamp" -> Len(Decimal(object[key]))
      [] OTHER             -> Len(object[key]) + 2

RECURSIVE FieldsLen(_, _)
FieldsLen(object, keys) ==
    IF keys = {} THEN 0
    ELSE LET k == CHOOSE x \in keys : TRUE
         IN FieldLen(object, k) + FieldsLen(object, keys \ {k})

\* data.len()
DataLen(data) ==
    IF "json" \in DOMAIN data
    THEN 1 + FieldsLen(data.json, DOMAIN data.json)
    ELSE data.len

\* (n as u32).to_be_bytes()
to_be_bytes(n) ==
    <<(n \div 16777216) % 256, (n \div 65536) % 256, (n \div 256) % 256, n % 256>>

\* u32::from_be_bytes(b) as usize
from_be_bytes(b) == ((b[1] * 256 + b[2]) * 256 + b[3]) * 256 + b[4]

\* ChatMessage::new_outgoing
new_outgoing(uuid, content, sender_pubkey, t) ==
    [id |-> [uuid |-> uuid], content |-> content, sender_pubkey |-> sender_pubkey,
     timestamp |-> t, is_outgoing |-> TRUE]

\* ChatMessage::to_wire
to_wire(message) ==
    [json |-> [id |-> message.id, content |-> message.content,
               timestamp |-> message.timestamp]]

\* ChatMessage::from_wire, had it believed a sender named in the payload.
from_wire_trusting(data, sender_pubkey) ==
    IF "json" \in DOMAIN data
       /\ {"id", "content", "timestamp"} \subseteq DOMAIN data.json
    THEN [kind |-> "Ok",
          message |-> [id |-> data.json.id, content |-> data.json.content,
                       sender_pubkey |-> IF "sender_pubkey" \in DOMAIN data.json
                                         THEN data.json.sender_pubkey
                                         ELSE sender_pubkey,
                       timestamp |-> data.json.timestamp, is_outgoing |-> FALSE]]
    ELSE Err("InvalidFormat")

\* ChatMessage::from_wire; fields it does not know are skipped.
from_wire(data, sender_pubkey) ==
    IF "json" \in DOMAIN data
       /\ {"id", "content", "timestamp"} \subseteq DOMAIN data.json
    THEN [kind |-> "Ok",
          message |-> [id |-> data.json.id, content |-> data.json.content,
                       sender_pubkey |-> sender_pubkey,
                       timestamp |-> data.json.timestamp, is_outgoing |-> FALSE]]
    ELSE Err("InvalidFormat")

\* recv.read_exact(&mut data) for a buffer of n bytes: the first n bytes of
\* the stream, if it has that many; a JSON object cut short is no JSON.
read_exact(body, n) ==
    IF n > DataLen(body) THEN Err("ReceiveFailed")
    ELSE [kind |-> "Ok",
          data |-> IF n = DataLen(body) THEN body ELSE [len |-> n, cut |-> body]]

(***************************************************************************)
(* chat.rs: ChatSession and ChatManager.  A call of send_message or        *)
(* receive_message takes &mut self and is suspended at each await on the   *)
(* stream.                                                                 *)
(***************************************************************************)
our_pubkey == PublicKeyHex(LocalIdentity)
default_persist == FALSE

NoSessions == [k \in {} |-> 0]
NoStream == [opened |-> FALSE]

\* ChatManager::new
InitChatManager ==
    /\ sessions = NoSessions
    /\ chatOp = Idle
    /\ chatResult = [op |-> "none"]
    /\ outStream = NoStream
    /\ nextMsgId = 1
    /\ issued = [c \in ContactKeys |-> <<>>]

\* ChatSession::new
NewSession(contact_pubkey, persist) ==
    [contact_pubkey |-> contact_pubkey, messages |-> <<>>, persist |-> persist]

\* ChatManager::get_session
get_session(table, contact_pubkey) ==
    IF contact_pubkey \in DOMAIN table THEN Some(table[contact_pubkey]) ELSE None

\* ChatSession::get_messages: a slice borrowed from the session of a contact.
Borrowed(contact_pubkey) == [view_of |-> contact_pubkey]

\* <[ChatMessage]>::to_vec: a vector that owns copies of the messages.
to_vec(table, slice) == [owned |-> table[slice.view_of].messages]

\* Vec::default
EmptyVec == [owned |-> <<>>]

\* The messages a returned history shows when it is read with the sessions
\* as they are in table.
Deref(table, messages) ==
    IF "owned" \in DOMAIN messages THEN messages.owned
    ELSE IF messages.view_of \in DOMAIN table THEN table[messages.view_of].messages
    ELSE <<>>

\* ChatManager::get_messages, had it handed out the slice of the session.
get_messages_borrowed(table, contact_pubkey) ==
    IF get_session(table, contact_pubkey) = None THEN EmptyVec
    ELSE Borrowed(contact_pubkey)

\* ChatManager::get_messages
get_messages(table, contact_pubkey) ==
    IF get_session(table, contact_pubkey) = None THEN EmptyVec
    ELSE to_vec(table, Borrowed(contact_pubkey))

\* ChatManager::get_or_create_session
get_or_create_session(table, contact_pubkey) ==
    IF contact_pubkey \in DOMAIN table THEN table
    ELSE [k \in DOMAIN table \cup {contact_pubkey} |->
            IF k = contact_pubkey THEN NewSession(contact_pubkey, default_persist)
            ELSE table[k]]

\* ChatSession::add_message, had it put the message first.
add_message_first(session, message) ==
    [session EXCEPT !.messages = <<message>> \o @]

\* ChatSession::add_message
add_message(session, message) ==
    [session EXCEPT !.messages = Append(@, message)]

\* get_or_create_session(contact_pubkey).add_message(message)
Store(table, contact_pubkey, message) ==
    LET t == get_or_create_session(table, contact_pubkey)
    IN [t EXCEPT ![contact_pubkey] = add_message(@, message)]

\* The size check of send_message, had it let a payload of one byte less
\* than the real limit through at most.
SendTooLargeInclusive(data) == DataLen(data) >= MAX_MESSAGE_SIZE

\* send_message, line 173
SendTooLarge(data) == DataLen(data) > MAX_MESSAGE_SIZE

\* The size check of receive_message, had it refused the limit itself.
ReceiveTooLargeInclusive(len) == len >= MAX_MESSAGE_SIZE

\* receive_message, line 229
ReceiveTooLarge(len) == len > MAX_MESSAGE_SIZE

(***************************************************************************)
(* The exchange protocol as a state machine: a message is created, carried *)
(* over NFC (where any field may be replaced), and verified.               *)
(***************************************************************************)
NoMsg == [version |-> 0]
NoResult == [kind |-> "none"]
NoCall == [op |-> "none"]

\* The nonces getrandom may return (16 bytes in the code, 1 here).
Nonces == {<<"0", "7">>}

\* What a received payload may carry in place of the original fields.
OtherVersions == {PROTOCOL_VERSION + 1}
OtherTypes == {"sneakernet"}
OtherPubkeys == {PublicKeyHex(i) : i \in Identities} \cup {<<"z", "z">>}
OtherTheirPubkeys == {None, Some(<<>>)} \cup {Some(PublicKeyHex(i)) : i \in Identities}
OtherTimestamps == {0, MaxNow + 7}
OtherNonces == {<<"0", "8">>}

\* The expectations a caller passes to verify.
Expectations == {None} \cup {Some(PublicKeyHex(i)) : i \in Identities}

\* The readings the clock is observed at after it started at 0.
ClockReadings == {StalenessWindow, StalenessWindow + 1, MaxNow}

NoPairing == [pc |-> "idle"]
NoDerive == [kind |-> "none"]

InitPairingState ==
    /\ now = 0
    /\ msg = NoMsg
    /\ orig = NoMsg
    /\ call = NoCall
    /\ expected = None
    /\ result = NoResult
    /\ pairing = NoPairing
    /\ dcall = NoDerive
    /\ dprev = NoDerive

\* The tasks of the async runtime that run commands at the same time.
Tasks == {1, 2}

\* AppState::default, an empty store, and nothing verified or serialised yet.
InitApp ==
    /\ app_keys = None
    /\ contacts = <<>>
    /\ ceOp = [t \in Tasks |-> Idle]
    /\ delOp = Idle
    /\ verified = {}
    /\ nextContactId = 1
    /\ codec = [kind |-> "none"]
    /\ accepted = <<>>
    /\ history = [kind |-> "none"]
    /\ historyWas = <<>>

InitExchange ==
    /\ InitPairingState
    /\ InitNode
    /\ InitChatManager
    /\ InitApp

NewInitial(i, nonce) ==
    /\ msg' = new_initial(i, now, nonce)
    /\ orig' = msg'
    /\ call' = [op |-> "new_initial", keys |-> i]
    /\ result' = NoResult
    /\ expected' = None
    /\ UNCHANGED <<now, pairing, dcall, dprev, nodeVars, chatVars, appVars>>

NewResponse(i, their, nonce) ==
    /\ msg' = new_response(i, their, now, nonce)
    /\ orig' = msg'
    /\ call' = [op |-> "new_response", keys |-> i, their_pubkey |-> their]
    /\ result' = NoResult
    /\ expected' = None
    /\ UNCHANGED <<now, pairing, dcall, dprev, nodeVars, chatVars, appVars>>

\* One field of the payload is replaced on the way (from_json accepts any
\* value of the field's type).
Replace(field, value) ==
    /\ msg # NoMsg
    /\ msg[field] # value
    /\ msg' = [msg EXCEPT ![field] = value]
    /\ result' = NoResult
    /\ expected' = None
    /\ UNCHANGED <<now, orig, call, pairing, dcall, dprev, nodeVars, chatVars, appVars>>

\* The signature is replaced by one that another identity made over the
\* original content with its own key.
Resign(j) ==
    /\ msg # NoMsg
    /\ SecretKeyOf(j) # orig.signature.signer
    /\ Replace("signature", SignSchnorr(orig.signature.digest, SecretKeyOf(j)))

Tick(t) ==
    /\ t > now
    /\ t <= MaxNow
    /\ now' = t
    /\ result' = NoResult
    /\ expected' = None
    /\ UNCHANGED <<msg, orig, call, pairing, dcall, dprev, nodeVars, chatVars, appVars>>

Verify(exp) ==
    /\ msg # NoMsg
    /\ result' = verify(msg, exp, now)
    /\ expected' = exp
    /\ UNCHANGED <<now, msg, orig, call, pairing, dcall, dprev, nodeVars, chatVars, appVars>>

NextExchange ==
    \/ \E i \in Identities, n \in Nonces : NewInitial(i, n)
    \/ \E i \in Identities, n \in Nonces, t \in {PublicKeyHex(j) : j \in Identities} :
          NewResponse(i, t, n)
    \/ \E v \in OtherVersions : Replace("version", v)
    \/ \E v \in OtherTypes : Replace("msg_type", v)
    \/ \E v \in OtherPubkeys : Replace("pubkey", v)
    \/ \E v \in OtherTheirPubkeys : Replace("their_pubkey", v)
    \/ \E v \in OtherTimestamps : Replace("timestamp", v)
    \/ \E v \in OtherNonces : Replace("nonce", v)
    \/ Replace("signature", BadSignature)
    \/ \E j \in Identities : Resign(j)
    \/ \E t \in ClockReadings : Tick(t)
    \/ \E e \in Expectations : Verify(e)

SpecExchange == InitExchange /\ [][NextExchange]_vars

(***************************************************************************)
(* Pairing: A advertises an initial message, B scans it (start_nfc_scan)   *)
(* and writes a response naming A (write_nfc_response), A verifies the     *)
(* response expecting its own pubkey, and each party completes the         *)
(* exchange (complete_exchange) with the pubkey it learned.                *)
(***************************************************************************)
\* commands.rs complete_exchange, lines 254-262: the derivation a party with
\* keys i makes for the counterpart their_pubkey.
CompleteExchangeDerive(i, their_pubkey) ==
    derive_iroh_keypair(SecretKeyOf(i), PublicKeyHex(i), their_pubkey)

PairAdvertise(a, b, nonce) ==
    /\ pairing.pc = "idle"
    /\ msg' = new_initial(a, now, nonce)
    /\ pairing' = [pc |-> "advertised", a |-> a, b |-> b,
                   a_sees |-> None, b_sees |-> None,
                   a_derived |-> None, b_derived |-> None]
    /\ UNCHANGED <<now, orig, call, expected, result, dcall, dprev, nodeVars, chatVars, appVars>>

\* start_nfc_scan, lines 178-182: verify(None), then hand out msg.pubkey.
PairScan ==
    /\ pairing.pc = "advertised"
    /\ result' = verify(msg, None, now)
    /\ expected' = None
    /\ pairing' = IF result' = Ok
                  THEN [pairing EXCEPT !.pc = "scanned", !.b_sees = Some(msg.pubkey)]
                  ELSE [pairing EXCEPT !.pc = "failed"]
    /\ UNCHANGED <<now, msg, orig, call, dcall, dprev, nodeVars, chatVars, appVars>>

\* write_nfc_response, lines 203-214.
PairRespond(nonce) ==
    /\ pairing.pc = "scanned"
    /\ msg' = new_response(pairing.b, Unwrap(pairing.b_sees), now, nonce)
    /\ pairing' = [pairing EXCEPT !.pc = "responded"]
    /\ UNCHANGED <<now, orig, call, expected, result, dcall, dprev, nodeVars, chatVars, appVars>>

PairAccept ==
    /\ pairing.pc = "responded"
    /\ expected' = Some(PublicKeyHex(pairing.a))
    /\ result' = verify(msg, expected', now)
    /\ pairing' = IF result' = Ok
                  THEN [pairing EXCEPT !.pc = "accepted", !.a_sees = Some(msg.pubkey)]
                  ELSE [pairing EXCEPT !.pc = "failed"]
    /\ UNCHANGED <<now, msg, orig, call, dcall, dprev, nodeVars, chatVars, appVars>>

PairCompleteA ==
    /\ pairing.pc = "accepted"
    /\ pairing.a_derived = None
    /\ pairing' = [pairing EXCEPT !.a_derived =
                      Some(CompleteExchangeDerive(pairing.a, Unwrap(pairing.a_sees)))]
    /\ UNCHANGED <<now, msg, orig, call, expected, result, dcall, dprev, nodeVars, chatVars, appVars>>

PairCompleteB ==
    /\ pairing.pc = "accepted"
    /\ pairing.b_derived = None
    /\ pairing' = [pairing EXCEPT !.b_derived =
                      Some(CompleteExchangeDerive(pairing.b, Unwrap(pairing.b_sees)))]
    /\ UNCHANGED <<now, msg, orig, call, expected, result, dcall, dprev, nodeVars, chatVars, appVars>>

PairTick(t) ==
    /\ t > now
    /\ t <= MaxNow
    /\ now' = t
    /\ UNCHANGED <<msg, orig, call, expected, result, pairing, dcall, dprev, nodeVars, chatVars, appVars>>

PairingNonces == {<<"0", "7">>, <<"f", "3">>}

NextPairing ==
    \/ \E a \in Identities, b \in Identities, n \in PairingNonces : PairAdvertise(a, b, n)
    \/ PairScan
    \/ \E n \in PairingNonces : PairRespond(n)
    \/ PairAccept
    \/ PairCompleteA
    \/ PairCompleteB
    \/ \E t \in ClockReadings : PairTick(t)

SpecPairing == InitExchange /\ [][NextPairing]_vars

(***************************************************************************)
(* derive_iroh_keypair applied to secrets and hex strings of a caller's    *)
(* choice; the last two calls are kept.                                    *)
(***************************************************************************)
\* Secrets of 32 bytes, and of 16 and 33 bytes.
DeriveSecrets ==
    {[k \in 1..SecretKeyLen |-> 66], [k \in 1..SecretKeyLen |-> 7],
     [k \in 1..(SecretKeyLen \div 2) |-> 66], [k \in 1..(SecretKeyLen + 1) |-> 66]}

\* Hex strings of 1, 2 and 3 bytes, a string that is no hex, and one of odd
\* length.
DeriveKeys ==
    {<<"0", "0">>, <<"0", "0", "0", "1">>, <<"0", "1", "0", "0">>,
     <<"0", "0", "0", "1", "0", "0">>, <<"z", "z">>, <<"0">>}

Derive(secret, my, their) ==
    /\ dprev' = dcall
    /\ dcall' = [kind |-> "call", secret |-> secret, my |-> my, their |-> their,
                 result |-> derive_iroh_keypair(secret, my, their)]
    /\ UNCHANGED <<now, msg, orig, call, expected, result, pairing, nodeVars, chatVars, appVars>>

NextDerive ==
    \E secret \in DeriveSecrets, my \in DeriveKeys, their \in DeriveKeys :
        Derive(secret, my, their)

SpecDerive == InitExchange /\ [][NextDerive]_vars

(***************************************************************************)
(* The transport node driven by its callers.                               *)
(***************************************************************************)
restOfNode == <<now, msg, orig, call, expected, result, pairing, dcall, dprev,
                chatVars, appVars>>

NextNode ==
    \/ \E k \in StartSecrets, c \in ContactKeys : Start(k, c) /\ UNCHANGED restOfNode
    \/ BindDone /\ UNCHANGED restOfNode
    \/ BindFail /\ UNCHANGED restOfNode
    \/ Stop /\ UNCHANGED restOfNode
    \/ CloseDone /\ UNCHANGED restOfNode
    \/ \E n \in RemoteNodeIds, c \in ContactKeys : Connect(n, c) /\ UNCHANGED restOfNode
    \/ ConnectDone /\ UNCHANGED restOfNode
    \/ ConnectFail /\ UNCHANGED restOfNode
    \/ Abort /\ UNCHANGED restOfNode
    \/ Status /\ UNCHANGED restOfNode

SpecNode == InitExchange /\ [][NextNode]_vars

(***************************************************************************)
(* The chat manager driven by its callers, on a node that has made a       *)
(* connection to each contact.                                             *)
(***************************************************************************)
\* What a peer puts on a stream: four bytes, then the body.
Frame(body) == [prefix |-> to_be_bytes(DataLen(body)), body |-> body]

PeerWire ==
    [json |-> [id |-> [uuid |-> 1], content |-> Text("Hi"), timestamp |-> 7]]

\* The same with a field naming another sender.
ClaimingWire ==
    [json |-> [id |-> [uuid |-> 1], content |-> Text("Hi"), timestamp |-> 7,
               sender_pubkey |-> HexEncode(XOnlyOf(3))]]

\* A payload of MAX_MESSAGE_SIZE bytes.
FullWire ==
    [json |-> [id |-> [uuid |-> 1],
               content |-> Filler(MAX_MESSAGE_SIZE
                                  - DataLen([json |-> [id |-> [uuid |-> 1],
                                                       content |-> Filler(0),
                                                       timestamp |-> 7]])),
               timestamp |-> 7]]

Junk(n) == [len |-> n]

Frames ==
    {Frame(PeerWire), Frame(ClaimingWire), Frame(FullWire),
     Frame(Junk(MAX_MESSAGE_SIZE + 1)),                             \* too large
     Frame(Junk(5)),                                                \* no JSON
     [prefix |-> to_be_bytes(9), body |-> Junk(5)],                 \* ends early
     [prefix |-> to_be_bytes(DataLen(PeerWire) - 1), body |-> PeerWire]}

\* The texts sent: two short ones, and two around the limit once the
\* timestamp has as many digits as MaxNow.
FullPad ==
    MAX_MESSAGE_SIZE
    - DataLen(to_wire(new_outgoing(1, Filler(0), our_pubkey, MaxNow)))
SendContents == {Text("Hello!"), Text("World"), Filler(FullPad), Filler(FullPad + 1)}

RECURSIVE TotalStored(_, _)
TotalStored(table, keys) ==
    IF keys = {} THEN 0
    ELSE LET k == CHOOSE x \in keys : TRUE
         IN Len(table[k].messages) + TotalStored(table, keys \ {k})

Pending(op) == [op |-> op, ret |-> [kind |-> "pending"]]

\* What receive_message returned, and for which stream.
Received(stream, ret) == [op |-> "receive", ret |-> ret, stream |-> stream]

\* send_message up to its first await, had it made the session of the
\* contact before the stream is opened.
send_creates_session_first(contact_pubkey, content) ==
    LET message == new_outgoing(nextMsgId, content, our_pubkey, now)
        data    == to_wire(message)
    IN /\ chatOp = Idle
       /\ contact_pubkey \in DOMAIN connections
       /\ nextMsgId <= MaxMsgs
       /\ TotalStored(sessions, DOMAIN sessions) < MaxMsgs
       /\ nextMsgId' = nextMsgId + 1
       /\ outStream' = NoStream
       /\ IF SendTooLarge(data)
          THEN /\ chatResult' = Returned("send", Err("MessageTooLarge"))
               /\ UNCHANGED <<chatOp, sessions>>
          ELSE /\ chatOp' = [pc |-> "open_uni", op |-> "send",
                             connection |-> connections[contact_pubkey],
                             contact_pubkey |-> contact_pubkey,
                             message |-> message, data |-> data]
               /\ sessions' = get_or_create_session(sessions, contact_pubkey)
               /\ chatResult' = Pending("send")
       /\ UNCHANGED issued

\* send_message up to its first await, lines 168-180.
Send(contact_pubkey, content) ==
    LET message == new_outgoing(nextMsgId, content, our_pubkey, now)
        data    == to_wire(message)
    IN /\ chatOp = Idle
       /\ contact_pubkey \in DOMAIN connections
       /\ nextMsgId <= MaxMsgs
       /\ TotalStored(sessions, DOMAIN sessions) < MaxMsgs
       /\ nextMsgId' = nextMsgId + 1
       /\ outStream' = NoStream
       /\ IF SendTooLarge(data)
          THEN /\ chatResult' = Returned("send", Err("MessageTooLarge"))
               /\ UNCHANGED chatOp
          ELSE /\ chatOp' = [pc |-> "open_uni", op |-> "send",
                             connection |-> connections[contact_pubkey],
                             contact_pubkey |-> contact_pubkey,
                             message |-> message, data |-> data]
               /\ chatResult' = Pending("send")
       /\ UNCHANGED <<sessions, issued>>

\* open_uni() returned a stream: lines 184-187.
SendOpened ==
    /\ chatOp.pc = "open_uni"
    /\ outStream' = [opened |-> TRUE, prefix |-> None, body |-> None,
                     finished |-> FALSE]
    /\ chatOp' = [chatOp EXCEPT !.pc = "write_len"]
    /\ UNCHANGED <<sessions, chatResult, nextMsgId, issued>>

\* The length prefix is written: lines 184-193.
SendLenWritten ==
    /\ chatOp.pc = "write_len"
    /\ outStream' = [outStream EXCEPT !.prefix = Some(to_be_bytes(DataLen(chatOp.data)))]
    /\ chatOp' = [chatOp EXCEPT !.pc = "write_data"]
    /\ UNCHANGED <<sessions, chatResult, nextMsgId, issued>>

\* The payload is written; finish() then succeeds or not: lines 191-205.
SendDataWritten(finished) ==
    /\ chatOp.pc = "write_data"
    /\ outStream' = [outStream EXCEPT !.body = Some(chatOp.data),
                                      !.finished = finished]
    /\ IF finished
       THEN /\ sessions' = Store(sessions, chatOp.contact_pubkey, chatOp.message)
            /\ issued' = [issued EXCEPT ![chatOp.contact_pubkey] =
                                            Append(@, chatOp.message.id)]
            /\ chatResult' = Returned("send", [kind |-> "Ok",
                                               message |-> chatOp.message])
       ELSE /\ chatResult' = Returned("send", Err("SendFailed"))
            /\ UNCHANGED <<sessions, issued>>
    /\ chatOp' = Idle
    /\ UNCHANGED nextMsgId

\* receive_message up to its first await, lines 214-217.
Receive(sender_pubkey) ==
    /\ chatOp = Idle
    /\ sender_pubkey \in DOMAIN connections
    /\ TotalStored(sessions, DOMAIN sessions) < MaxMsgs
    /\ chatOp' = [pc |-> "accept_uni", op |-> "receive",
                  connection |-> connections[sender_pubkey],
                  sender_pubkey |-> sender_pubkey]
    /\ chatResult' = Pending("receive")
    /\ UNCHANGED <<sessions, outStream, nextMsgId, issued>>

\* accept_uni() returned a stream the peer has written to: lines 221-224.
ReceiveAccepted(frame) ==
    /\ chatOp.pc = "accept_uni"
    /\ chatOp' = [pc |-> "read_len", op |-> "receive",
                  connection |-> chatOp.connection,
                  sender_pubkey |-> chatOp.sender_pubkey, stream |-> frame]
    /\ UNCHANGED <<sessions, chatResult, outStream, nextMsgId, issued>>

\* The four bytes of the length are read: lines 226-236.
ReceiveLenRead ==
    LET len == from_be_bytes(chatOp.stream.prefix)
    IN /\ chatOp.pc = "read_len"
       /\ IF ReceiveTooLarge(len)
          THEN /\ chatResult' = Received(chatOp.stream, Err("MessageTooLarge"))
               /\ chatOp' = Idle
          ELSE /\ chatOp' = [pc |-> "read_data", op |-> "receive",
                             connection |-> chatOp.connection,
                             sender_pubkey |-> chatOp.sender_pubkey,
                             stream |-> chatOp.stream, len |-> len]
               /\ UNCHANGED chatResult
       /\ UNCHANGED <<sessions, outStream, nextMsgId, issued>>

\* The read of the payload returns: lines 234-247.
ReceiveDataRead ==
    LET read   == read_exact(chatOp.stream.body, chatOp.len)
        parsed == from_wire(read.data, chatOp.sender_pubkey)
    IN /\ chatOp.pc = "read_data"
       /\ IF read.kind # "Ok"
          THEN /\ chatResult' = Received(chatOp.stream, Err("ReceiveFailed"))
               /\ UNCHANGED <<sessions, issued>>
          ELSE IF parsed.kind # "Ok"
          THEN /\ chatResult' = Received(chatOp.stream, Err("InvalidFormat"))
               /\ UNCHANGED <<sessions, issued>>
          ELSE /\ sessions' = Store(sessions, chatOp.sender_pubkey, parsed.message)
               /\ issued' = [issued EXCEPT ![chatOp.sender_pubkey] =
                                               Append(@, parsed.message.id)]
               /\ chatResult' = Received(chatOp.stream,
                                         [kind |-> "Ok", message |-> parsed.message])
       /\ chatOp' = Idle
       /\ UNCHANGED <<outStream, nextMsgId>>

\* The await the call is suspended at returns an error: lines 181, 188, 194,
\* 218, 225.
ChatFail ==
    /\ chatOp # Idle
    /\ chatOp.pc # "read_data"
    /\ chatResult' = Returned(chatOp.op, Err(IF chatOp.op = "send" THEN "SendFailed"
                                             ELSE "ReceiveFailed"))
    /\ chatOp' = Idle
    /\ UNCHANGED <<sessions, outStream, nextMsgId, issued>>

\* The caller drops the future of the call in flight.
ChatAbort ==
    /\ chatOp # Idle
    /\ chatResult' = Returned(chatOp.op, [kind |-> "dropped"])
    /\ chatOp' = Idle
    /\ UNCHANGED <<sessions, outStream, nextMsgId, issued>>

\* ChatSession::clear, had it given the session up.
clear_drops_session(table, contact_pubkey) ==
    [k \in DOMAIN table \ {contact_pubkey} |-> table[k]]

\* ChatSession::clear on the session of a contact
clear(table, contact_pubkey) ==
    [table EXCEPT ![contact_pubkey].messages = <<>>]

\* get_or_create_session(contact_pubkey).clear()
ClearSession(contact_pubkey) ==
    /\ chatOp = Idle
    /\ sessions' = clear(get_or_create_session(sessions, contact_pubkey),
                         contact_pubkey)
    /\ issued' = [issued EXCEPT ![contact_pubkey] = <<>>]
    /\ chatResult' = [op |-> "clear", contact_pubkey |-> contact_pubkey]
    /\ UNCHANGED <<chatOp, outStream, nextMsgId>>

\* ChatManager::clear_all
ClearAll ==
    /\ chatOp = Idle
    /\ sessions' = NoSessions
    /\ issued' = [c \in ContactKeys |-> <<>>]
    /\ chatResult' = [op |-> "clear_all"]
    /\ UNCHANGED <<chatOp, outStream, nextMsgId>>

\* SystemTime::now() has moved on.
ChatTick(t) ==
    /\ t > now
    /\ t <= MaxNow
    /\ now' = t
    /\ UNCHANGED chatVars

\* The node after start_for_contact for one contact and connect_to_contact
\* for both.
ConnectedNode ==
    LET first  == CHOOSE c \in ContactKeys : TRUE
        remote == CHOOSE n \in RemoteNodeIds : NodeIdParses(n)
        own    == derive_iroh_keypair(SecretKeyOf(LocalIdentity),
                                      PublicKeyHex(LocalIdentity), first)
    IN /\ endpoint = Some([secret_key |-> own.secret_key])
       /\ current_contact = Some(first)
       /\ connections = [c \in ContactKeys |->
                            [id |-> IF c = first THEN 1 ELSE 2,
                             remote |-> remote.base32]]
       /\ nodeOp = Idle
       /\ nodeResult = Returned("connect", Ok)
       /\ lastStatus = NoStatus
       /\ alive = 1
       /\ nextConn = 3

InitChat ==
    /\ InitPairingState
    /\ ConnectedNode
    /\ InitChatManager
    /\ InitApp

restOfChat == <<msg, orig, call, expected, result, pairing, dcall, dprev, nodeVars,
                appVars>>

NextChat ==
    \/ \E c \in ContactKeys, t \in SendContents :
           Send(c, t) /\ UNCHANGED <<now, restOfChat>>
    \/ SendOpened /\ UNCHANGED <<now, restOfChat>>
    \/ SendLenWritten /\ UNCHANGED <<now, restOfChat>>
    \/ \E f \in BOOLEAN : SendDataWritten(f) /\ UNCHANGED <<now, restOfChat>>
    \/ \E c \in ContactKeys : Receive(c) /\ UNCHANGED <<now, restOfChat>>
    \/ \E f \in Frames : ReceiveAccepted(f) /\ UNCHANGED <<now, restOfChat>>
    \/ ReceiveLenRead /\ UNCHANGED <<now, restOfChat>>
    \/ ReceiveDataRead /\ UNCHANGED <<now, restOfChat>>
    \/ ChatFail /\ UNCHANGED <<now, restOfChat>>
    \/ ChatAbort /\ UNCHANGED <<now, restOfChat>>
    \/ \E c \in ContactKeys : ClearSession(c) /\ UNCHANGED <<now, restOfChat>>
    \/ ClearAll /\ UNCHANGED <<now, restOfChat>>
    \/ \E t \in {MaxNow} : ChatTick(t) /\ UNCHANGED restOfChat

SpecChat == InitChat /\ [][NextChat]_vars

(***************************************************************************)
(* The history of a contact is asked for between the calls that send,      *)
(* receive and clear.                                                      *)
(***************************************************************************)
\* A call of get_messages(contact_pubkey): it takes &self, while no
\* &mut self call is in flight.
GetMessages(contact_pubkey) ==
    /\ chatOp = Idle
    /\ history' = [kind |-> "returned", contact_pubkey |-> contact_pubkey,
                   messages |-> get_messages(sessions, contact_pubkey)]
    /\ historyWas' = IF contact_pubkey \in DOMAIN sessions
                     THEN sessions[contact_pubkey].messages ELSE <<>>
    /\ UNCHANGED chatVars

HistoryContents == {Text("Hello!")}
HistoryFrames == {Frame(PeerWire), Frame(Junk(5))}

restOfHistory == <<now, msg, orig, call, expected, result, pairing, dcall, dprev,
                   nodeVars, storeVars, codec, accepted>>

NextHistory ==
    \/ \E c \in ContactKeys, t \in HistoryContents :
           Send(c, t) /\ UNCHANGED <<now, restOfChat>>
    \/ SendOpened /\ UNCHANGED <<now, restOfChat>>
    \/ SendLenWritten /\ UNCHANGED <<now, restOfChat>>
    \/ \E f \in BOOLEAN : SendDataWritten(f) /\ UNCHANGED <<now, restOfChat>>
    \/ \E c \in ContactKeys : Receive(c) /\ UNCHANGED <<now, restOfChat>>
    \/ \E f \in HistoryFrames : ReceiveAccepted(f) /\ UNCHANGED <<now, restOfChat>>
    \/ ReceiveLenRead /\ UNCHANGED <<now, restOfChat>>
    \/ ReceiveDataRead /\ UNCHANGED <<now, restOfChat>>
    \/ ChatAbort /\ UNCHANGED <<now, restOfChat>>
    \/ \E c \in ContactKeys : ClearSession(c) /\ UNCHANGED <<now, restOfChat>>
    \/ ClearAll /\ UNCHANGED <<now, restOfChat>>
    \/ \E c \in ContactKeys : GetMessages(c) /\ UNCHANGED restOfHistory

SpecHistory == InitChat /\ [][NextHistory]_vars

(***************************************************************************)
(* The node and the chat manager shared between commands.  The node is an  *)
(* Arc<RwLock<IrohNode>> and the manager an Arc<RwLock<Option<..>>>: a     *)
(* command that starts, stops or connects holds the node's write guard     *)
(* for the whole call, a command that sends or receives holds the node's   *)
(* read guard (the &Connection that get_connection hands out borrows from  *)
(* it) and the manager's write guard for the whole call.                   *)
(***************************************************************************)
\* The node's read guard, had the command given it back before the call on
\* the manager.
NodeReadHeldNever == FALSE

\* The node's read guard is held: a send or receive is in flight.
NodeReadHeld == chatOp # Idle

\* The node's write guard is held: a start, stop or connect is in flight.
NodeWriteHeld == nodeOp # Idle

\* node.write().await is granted.
NodeWrite == ~NodeReadHeld /\ ~NodeWriteHeld

\* node.read().await is granted.
NodeRead == ~NodeWriteHeld

\* send_message for a contact get_connection has no connection for.
SendNotConnected(contact_pubkey) ==
    /\ NodeRead
    /\ chatOp = Idle
    /\ contact_pubkey \notin DOMAIN connections
    /\ chatResult # [op |-> "send", ret |-> Err("NotConnected"),
                     contact_pubkey |-> contact_pubkey]
    /\ chatResult' = [op |-> "send", ret |-> Err("NotConnected"),
                      contact_pubkey |-> contact_pubkey]
    /\ UNCHANGED <<sessions, chatOp, outStream, nextMsgId, issued>>

\* The contact the node is started for and connects to, and what is sent
\* and received: a short text and one that is a byte too large at time 0.
AppContact == PublicKeyHex(2)
AppContents == {Text("Hello!"), Filler(FullPad + 3)}
AppFrames == {Frame(PeerWire), Frame(Junk(5)), Frame(Junk(MAX_MESSAGE_SIZE + 1))}

restOfApp == <<now, msg, orig, call, expected, result, pairing, dcall, dprev, appVars>>

\* The calls on the node and on the manager as any callers may make them,
\* a call on the one while a call on the other is in flight included.
NextCalls ==
    \/ Start(SecretKeyOf(LocalIdentity), AppContact)
          /\ UNCHANGED <<chatVars, restOfApp>>
    \/ BindDone /\ UNCHANGED <<chatVars, restOfApp>>
    \/ BindFail /\ UNCHANGED <<chatVars, restOfApp>>
    \/ Stop /\ UNCHANGED <<chatVars, restOfApp>>
    \/ CloseDone /\ UNCHANGED <<chatVars, restOfApp>>
    \/ \E n \in RemoteNodeIds :
          Connect(n, AppContact) /\ UNCHANGED <<chatVars, restOfApp>>
    \/ ConnectDone /\ UNCHANGED <<chatVars, restOfApp>>
    \/ ConnectFail /\ UNCHANGED <<chatVars, restOfApp>>
    \/ Abort /\ UNCHANGED <<chatVars, restOfApp>>
    \/ \E t \in AppContents :
          Send(AppContact, t) /\ UNCHANGED <<nodeVars, restOfApp>>
    \/ SendOpened /\ UNCHANGED <<nodeVars, restOfApp>>
    \/ SendLenWritten /\ UNCHANGED <<nodeVars, restOfApp>>
    \/ \E f \in BOOLEAN : SendDataWritten(f) /\ UNCHANGED <<nodeVars, restOfApp>>
    \/ Receive(AppContact) /\ UNCHANGED <<nodeVars, restOfApp>>
    \/ \E f \in AppFrames : ReceiveAccepted(f) /\ UNCHANGED <<nodeVars, restOfApp>>
    \/ ReceiveLenRead /\ UNCHANGED <<nodeVars, restOfApp>>
    \/ ReceiveDataRead /\ UNCHANGED <<nodeVars, restOfApp>>
    \/ ChatFail /\ UNCHANGED <<nodeVars, restOfApp>>
    \/ ChatAbort /\ UNCHANGED <<nodeVars, restOfApp>>

SpecCalls == InitExchange /\ [][NextCalls]_vars

\* The same calls made by the commands, under the guards of the shared node.
NextApp ==
    \/ NodeWrite /\ Start(SecretKeyOf(LocalIdentity), AppContact)
          /\ UNCHANGED <<chatVars, restOfApp>>
    \/ BindDone /\ UNCHANGED <<chatVars, restOfApp>>
    \/ BindFail /\ UNCHANGED <<chatVars, restOfApp>>
    \/ NodeWrite /\ Stop /\ UNCHANGED <<chatVars, restOfApp>>
    \/ CloseDone /\ UNCHANGED <<chatVars, restOfApp>>
    \/ \E n \in RemoteNodeIds :
          NodeWrite /\ Connect(n, AppContact) /\ UNCHANGED <<chatVars, restOfApp>>
    \/ ConnectDone /\ UNCHANGED <<chatVars, restOfApp>>
    \/ ConnectFail /\ UNCHANGED <<chatVars, restOfApp>>
    \/ Abort /\ UNCHANGED <<chatVars, restOfApp>>
    \/ SendNotConnected(AppContact) /\ UNCHANGED <<nodeVars, restOfApp>>
    \/ \E t \in AppContents :
          NodeRead /\ Send(AppContact, t) /\ UNCHANGED <<nodeVars, restOfApp>>
    \/ SendOpened /\ UNCHANGED <<nodeVars, restOfApp>>
    \/ SendLenWritten /\ UNCHANGED <<nodeVars, restOfApp>>
    \/ \E f \in BOOLEAN : SendDataWritten(f) /\ UNCHANGED <<nodeVars, restOfApp>>
    \/ NodeRead /\ Receive(AppContact) /\ UNCHANGED <<nodeVars, restOfApp>>
    \/ \E f \in AppFrames : ReceiveAccepted(f) /\ UNCHANGED <<nodeVars, restOfApp>>
    \/ ReceiveLenRead /\ UNCHANGED <<nodeVars, restOfApp>>
    \/ ReceiveDataRead /\ UNCHANGED <<nodeVars, restOfApp>>
    \/ ChatFail /\ UNCHANGED <<nodeVars, restOfApp>>
    \/ ChatAbort /\ UNCHANGED <<nodeVars, restOfApp>>

SpecApp == InitExchange /\ [][NextApp]_vars

(***************************************************************************)
(* commands.rs: the key and contact commands.  The keys are cached in      *)
(* AppState and the contact list lives in the store; a command reads the   *)
(* cache, loads the list and saves the list in separate steps, and async   *)
(* commands run as tasks next to each other and next to a sync command.    *)
(***************************************************************************)
\* generate_keypair: StoredKeys of identity i.
StoredKeys(i) ==
    [secret_key_hex |-> HexEncode(SecretKeyOf(i)), public_key_hex |-> PublicKeyHex(i)]

\* derive_endpoint_id
derive_endpoint_id(nostr_secret_key, my_pubkey_hex, their_pubkey_hex) ==
    LET derived == derive_iroh_keypair(nostr_secret_key, my_pubkey_hex, their_pubkey_hex)
    IN IF derived.kind # "Ok" THEN derived
       ELSE [kind |-> "Ok", endpoint_id |-> NodeIdString(derived.public_key)]

\* Contact::new, with the uuid drawn and the clock reading.
Contact_new(uuid, their_pubkey, iroh_endpoint_id, t) ==
    [id |-> [uuid |-> uuid], nostr_pubkey |-> their_pubkey,
     iroh_endpoint_id |-> iroh_endpoint_id, exchanged_at |-> t, nickname |-> None]

\* The test of line 270, had it found no contact ever.
any_never(list, their_pubkey) == FALSE

\* contacts.iter().any(|c| c.nostr_pubkey == their_pubkey)
any(list, their_pubkey) ==
    \E k \in DOMAIN list : list[k].nostr_pubkey = their_pubkey

\* contacts.retain(|c| c.id != id)
retain(list, id) == SelectSeq(list, LAMBDA c : c.id # id)

\* The pubkeys complete_exchange is called with: the contacts', and a text
\* that is no hex.
BadPubkey == <<"n", "o", "t", "-", "h", "e", "x", "!">>
TheirPubkeys == ContactKeys \cup {BadPubkey}

\* The payloads on a scanned tag: an initial message of a counterpart, the
\* same with a forged signature, and a text that is no message.
ScannedPayloads ==
    LET made == {new_initial(2, 0, n) : n \in Nonces}
    IN {to_json(m) : m \in made}
       \cup {to_json([m EXCEPT !.signature = BadSignature]) : m \in made}
       \cup {[text |-> JsonString("hello")]}

CeReturned(ret) == [pc |-> "returned", ret |-> ret]

\* generate_keys: a new keypair is saved and cached, whatever was there.
GenerateKeys(i) ==
    /\ app_keys' = Some(StoredKeys(i))
    /\ UNCHANGED <<contacts, ceOp, delOp, verified, nextContactId>>

\* start_nfc_scan on a tag with one record: lines 176-184.
Scan(payload) ==
    /\ LET parsed == from_json(payload)
       IN verified' = IF parsed.kind = "Ok" /\ verify(parsed.message, None, now) = Ok
                      THEN verified \cup {parsed.message.pubkey}
                      ELSE verified
    /\ UNCHANGED <<app_keys, contacts, ceOp, delOp, nextContactId>>

\* complete_exchange, lines 247-265: the cached keys are read, the endpoint
\* id is derived and the contact is made.
CompleteExchange(t, their_pubkey) ==
    /\ ceOp[t].pc \in {"idle", "returned"}
    /\ nextContactId <= MaxContacts
    /\ IF app_keys = None
       THEN /\ ceOp' = [ceOp EXCEPT ![t] = CeReturned(Err("No keys found"))]
            /\ UNCHANGED nextContactId
       ELSE LET stored == Unwrap(app_keys)
                id == derive_endpoint_id(HexDecode(stored.secret_key_hex),
                                         stored.public_key_hex, their_pubkey)
            IN IF id.kind # "Ok"
               THEN /\ ceOp' = [ceOp EXCEPT ![t] = CeReturned(Err(id.kind))]
                    /\ UNCHANGED nextContactId
               ELSE /\ ceOp' = [ceOp EXCEPT ![t] =
                                  [pc |-> "load",
                                   contact |-> Contact_new(nextContactId, their_pubkey,
                                                           id.endpoint_id, now)]]
                    /\ nextContactId' = nextContactId + 1
    /\ UNCHANGED <<app_keys, contacts, delOp, verified>>

\* complete_exchange, lines 267-273: the list is loaded and, if no contact
\* has the pubkey, the new one is put in front.
CeLoad(t) ==
    /\ ceOp[t].pc = "load"
    /\ LET list == contacts
           contact == ceOp[t].contact
       IN ceOp' = [ceOp EXCEPT ![t] =
                      IF any(list, contact.nostr_pubkey)
                      THEN CeReturned([kind |-> "Ok", contact |-> contact])
                      ELSE [pc |-> "save", contact |-> contact,
                            list |-> <<contact>> \o list]]
    /\ UNCHANGED <<app_keys, contacts, delOp, verified, nextContactId>>

\* complete_exchange, lines 272-276: the list is saved.
CeSave(t) ==
    /\ ceOp[t].pc = "save"
    /\ contacts' = ceOp[t].list
    /\ ceOp' = [ceOp EXCEPT ![t] =
                   CeReturned([kind |-> "Ok", contact |-> ceOp[t].contact])]
    /\ UNCHANGED <<app_keys, delOp, verified, nextContactId>>

\* delete_contact, lines 290-291: the list is loaded and the contact taken out.
DeleteContact(uuid) ==
    /\ delOp = Idle
    /\ delOp' = [pc |-> "save", id |-> [uuid |-> uuid],
                 list |-> retain(contacts, [uuid |-> uuid])]
    /\ UNCHANGED <<app_keys, contacts, ceOp, verified, nextContactId>>

\* delete_contact, line 292: the list is saved.
DelSave ==
    /\ delOp.pc = "save"
    /\ contacts' = delOp.list
    /\ delOp' = Idle
    /\ UNCHANGED <<app_keys, ceOp, verified, nextContactId>>

restOfStore == <<now, msg, orig, call, expected, result, pairing, dcall, dprev,
                 nodeVars, chatVars, codec, accepted, historyVars>>

NextContacts ==
    \/ \E i \in Identities : GenerateKeys(i) /\ UNCHANGED restOfStore
    \/ \E payload \in ScannedPayloads : Scan(payload) /\ UNCHANGED restOfStore
    \/ \E t \in Tasks, p \in TheirPubkeys : CompleteExchange(t, p) /\ UNCHANGED restOfStore
    \/ \E t \in Tasks : CeLoad(t) /\ UNCHANGED restOfStore
    \/ \E t \in Tasks : CeSave(t) /\ UNCHANGED restOfStore
    \/ \E u \in 1..MaxContacts : DeleteContact(u) /\ UNCHANGED restOfStore
    \/ DelSave /\ UNCHANGED restOfStore

SpecContacts == InitExchange /\ [][NextContacts]_vars

(***************************************************************************)
(* Replay: messages are made, the clock is read, and whatever message is   *)
(* at hand is presented to verify, any number of times.                    *)
(***************************************************************************)
\* What identifies a message: who made it, when, and its nonce.
MessageKey(m) == <<m.pubkey, m.timestamp, m.nonce>>

\* A call of verify(expected_our_pubkey) on the message at hand; what it
\* accepts is noted.
Present(exp) ==
    /\ msg # NoMsg
    /\ Len(accepted) < MaxAccepted
    /\ result' = verify(msg, exp, now)
    /\ expected' = exp
    /\ accepted' = IF result'.kind = "Ok" THEN Append(accepted, MessageKey(msg))
                   ELSE accepted
    /\ UNCHANGED <<now, msg, orig, call, pairing, dcall, dprev, nodeVars, chatVars,
                   storeVars, codec, historyVars>>

\* How far a counterpart's clock runs ahead of the verifier's.
ClockSkews == {7, StalenessWindow + 1}

\* A counterpart whose clock runs ahead makes an initial message.
NewInitialAhead(i, nonce, skew) ==
    /\ msg' = new_initial(i, now + skew, nonce)
    /\ orig' = msg'
    /\ call' = [op |-> "new_initial", keys |-> i]
    /\ result' = NoResult
    /\ expected' = None
    /\ UNCHANGED <<now, pairing, dcall, dprev, nodeVars, chatVars, appVars>>

NextReplay ==
    \/ \E i \in Identities, n \in Nonces : NewInitial(i, n)
    \/ \E i \in Identities, n \in Nonces, k \in ClockSkews : NewInitialAhead(i, n, k)
    \/ \E i \in Identities, n \in Nonces, t \in {PublicKeyHex(j) : j \in Identities} :
          NewResponse(i, t, n)
    \/ \E t \in ClockReadings : Tick(t)
    \/ \E e \in Expectations : Present(e)

SpecReplay == InitExchange /\ [][NextReplay]_vars

(***************************************************************************)
(* Serialisation: a message is written with to_json, carried, and read     *)
(* with from_json; a chat message is written with to_wire and read with    *)
(* from_wire.                                                              *)
(***************************************************************************)
restOfCodec == <<now, msg, orig, call, expected, result, pairing, dcall, dprev,
                 nodeVars, chatVars, storeVars, accepted, historyVars>>

\* The messages written: made by new for every identity with their_pubkey
\* absent, empty or a key, dated now or later, and the same with a forged
\* signature or another version.
WrittenMessages ==
    LET made == {new(i, their, t, n) : i \in Identities, their \in OtherTheirPubkeys,
                                        t \in {0, MaxNow + 7}, n \in Nonces}
    IN made
       \cup {[m EXCEPT !.signature = BadSignature] : m \in made}
       \cup {[m EXCEPT !.version = v] : m \in made, v \in OtherVersions}

\* m.to_json()
ToJson(m) ==
    /\ codec' = [kind |-> "json", sent |-> m, json |-> to_json(m), as_written |-> TRUE]
    /\ UNCHANGED restOfCodec

\* A writer that leaves out a member that is null: the same JSON value to
\* serde for an Option field.
OmitNull ==
    /\ codec.kind = "json"
    /\ "theirPubkey" \in DOMAIN codec.json
    /\ codec.json.theirPubkey = JsonNull
    /\ codec' = [codec EXCEPT
                    !.json = [k \in DOMAIN codec.json \ {"theirPubkey"} |-> codec.json[k]]]
    /\ UNCHANGED restOfCodec

\* The text is damaged on the way: a member is lost or changes its type.
Damage(k) ==
    /\ codec.kind = "json"
    /\ codec.as_written
    /\ k \in DOMAIN codec.json
    /\ codec' = [codec EXCEPT !.json[k] = JsonNumber(0), !.as_written = FALSE]
    /\ codec.json[k] # JsonNumber(0)
    /\ UNCHANGED restOfCodec

\* ExchangeMessage::from_json(&json)
FromJson ==
    /\ codec.kind = "json"
    /\ codec' = [kind |-> "parsed", sent |-> codec.sent, json |-> codec.json,
                 as_written |-> codec.as_written, restored |-> from_json(codec.json)]
    /\ UNCHANGED restOfCodec

\* The message as sent and the message as read are both given to verify.
VerifyBoth(exp) ==
    /\ codec.kind = "parsed"
    /\ codec.restored.kind = "Ok"
    /\ codec' = [kind |-> "verified", sent |-> codec.sent, json |-> codec.json,
                 as_written |-> codec.as_written, restored |-> codec.restored,
                 expected |-> exp,
                 before |-> verify(codec.sent, exp, now),
                 after |-> verify(codec.restored.message, exp, now)]
    /\ UNCHANGED restOfCodec

\* new_outgoing(content, our_pubkey).to_wire()
ChatToWire(uuid, content) ==
    /\ LET message == new_outgoing(uuid, content, our_pubkey, now)
       IN codec' = [kind |-> "wire", sent |-> message, data |-> to_wire(message)]
    /\ UNCHANGED restOfCodec

\* ChatMessage::from_wire(&data, sender_pubkey)
ChatFromWire(sender_pubkey) ==
    /\ codec.kind = "wire"
    /\ codec' = [kind |-> "unwired", sent |-> codec.sent, data |-> codec.data,
                 restored |-> from_wire(codec.data, sender_pubkey)]
    /\ UNCHANGED restOfCodec

JsonMembers == {"version", "type", "pubkey", "theirPubkey", "timestamp", "nonce",
                "signature"}

NextCodec ==
    \/ \E m \in WrittenMessages : ToJson(m)
    \/ OmitNull
    \/ \E k \in JsonMembers : Damage(k)
    \/ FromJson
    \/ \E e \in Expectations : VerifyBoth(e)
    \/ \E u \in 1..MaxMsgs, c \in SendContents : ChatToWire(u, c)
    \/ \E c \in ContactKeys : ChatFromWire(c)
    \/ \E t \in ClockReadings : Tick(t)

SpecCodec == InitExchange /\ [][NextCodec]_vars

(***************************************************************************)
(* Properties of ExchangeMessage::verify and ExchangeMessage::new.         *)
(***************************************************************************)
Verified == result # NoResult

\* The checks of verify, each stated on its own: check k is violated by the
\* message at hand, whatever the other checks say.
VersionViolated == msg.version # PROTOCOL_VERSION
TypeViolated == msg.msg_type # MSG_TYPE
PubkeyViolated == ~PublicKeyParses(msg.pubkey)
SignatureViolated ==
    \/ ~SignatureParses(msg.signature)
    \/ /\ PublicKeyParses(msg.pubkey)
       /\ ~VerifySchnorr(msg.signature,
                         hash_content(SignedContent(msg.pubkey, msg.their_pubkey,
                                                    msg.timestamp, msg.nonce)),
                         HexDecode(msg.pubkey))
MatchViolated ==
    /\ expected # None
    /\ msg.their_pubkey # None
    /\ msg.their_pubkey # expected
FreshnessViolated == now - msg.timestamp > StalenessWindow

ViolatedChecks ==
    {k \in 1..6 : <<VersionViolated, TypeViolated, PubkeyViolated,
                    SignatureViolated, MatchViolated, FreshnessViolated>>[k]}

CheckError == <<"VersionMismatch", "InvalidFormat", "InvalidPubkey",
                "SignatureVerificationFailed", "PubkeyMismatch", "MessageExpired">>

\* C1: verify returns the error of the first violated check in the order
\* version, type tag, pubkey, signature, their_pubkey match, freshness, and
\* Ok when no check is violated.
C1_FirstFailingCheck ==
    Verified =>
        IF ViolatedChecks = {} THEN result = Ok
        ELSE \E k \in ViolatedChecks :
                /\ \A j \in ViolatedChecks : k <= j
                /\ result.kind = CheckError[k]

\* A forged signature on a stale message that names the wrong counterpart.
C1_Witness ==
    /\ Verified
    /\ ViolatedChecks = {4, 5, 6}
    /\ result.kind = "SignatureVerificationFailed"

\* A message that passes the checks before the their_pubkey match.
CorrectlySigned ==
    ~VersionViolated /\ ~TypeViolated /\ ~PubkeyViolated /\ ~SignatureViolated

\* C2: on a fresh, correctly signed message verify(Some(X)) is PubkeyMismatch
\* when their_pubkey is Some(Y), Y # X, and Ok when Y = X or their_pubkey is
\* None; verify(None) is never PubkeyMismatch.
C2_PubkeyMatch ==
    Verified =>
        /\ expected = None => result.kind # "PubkeyMismatch"
        /\ (CorrectlySigned /\ ~FreshnessViolated /\ expected # None) =>
              IF msg.their_pubkey # None /\ Unwrap(msg.their_pubkey) # Unwrap(expected)
              THEN result.kind = "PubkeyMismatch"
              ELSE result = Ok

\* A response that names nobody is accepted by a verifier that expects itself.
C2_Witness ==
    /\ Verified
    /\ CorrectlySigned
    /\ expected # None
    /\ msg.their_pubkey = None
    /\ result = Ok

\* C3: on an otherwise valid message verify is MessageExpired exactly when
\* now - timestamp > 300, and Ok otherwise.
C3_StalenessWindow ==
    (Verified /\ CorrectlySigned /\ ~MatchViolated) =>
        /\ now - msg.timestamp > 300 => result.kind = "MessageExpired"
        /\ now - msg.timestamp <= 300 => result = Ok

\* A message of age exactly 300 is accepted.
C3_Witness ==
    /\ Verified
    /\ CorrectlySigned
    /\ now - msg.timestamp = 300
    /\ result = Ok

\* C4: a message of another version is rejected with VersionMismatch carrying
\* expected = PROTOCOL_VERSION and got = the message's version, whatever its
\* other fields hold.
C4_VersionMismatch ==
    (Verified /\ msg.version # PROTOCOL_VERSION) =>
        result = [kind |-> "VersionMismatch", expected |-> PROTOCOL_VERSION,
                  got |-> msg.version]

\* A message of another version with a bad type tag and a bad signature.
C4_Witness ==
    /\ Verified
    /\ msg.version # PROTOCOL_VERSION
    /\ msg.msg_type # MSG_TYPE
    /\ msg.signature = BadSignature
    /\ result.kind = "VersionMismatch"

\* C5: a message made by new_initial or new_response has the protocol's
\* version and type, the maker's public key, their_pubkey None (initial) or
\* Some(counterpart) (response), a signature that validates against its own
\* pubkey, and passes verify(None) while it is fresh.
C5_NewMessage ==
    call # NoCall =>
        /\ orig.version = PROTOCOL_VERSION
        /\ orig.msg_type = MSG_TYPE
        /\ orig.pubkey = PublicKeyHex(call.keys)
        /\ call.op = "new_initial" => orig.their_pubkey = None
        /\ call.op = "new_response" => orig.their_pubkey = Some(call.their_pubkey)
        /\ VerifySchnorr(orig.signature,
                         hash_content(SignedContent(orig.pubkey, orig.their_pubkey,
                                                    orig.timestamp, orig.nonce)),
                         XOnlyOf(call.keys))
        /\ (Verified /\ msg = orig /\ expected = None
                /\ now - orig.timestamp <= StalenessWindow) => result = Ok

\* A response as made, verified without expectation.
C5_Witness ==
    /\ call.op = "new_response"
    /\ msg = orig
    /\ Verified
    /\ expected = None
    /\ result = Ok

\* C6: a message whose pubkey (to another identity's key), their_pubkey,
\* timestamp or nonce was changed after signing fails verify with
\* SignatureVerificationFailed.
C6_SignatureBindsFields ==
    (/\ Verified
     /\ msg.version = orig.version
     /\ msg.msg_type = orig.msg_type
     /\ msg.signature = orig.signature
     /\ PublicKeyParses(msg.pubkey)
     /\ \/ msg.pubkey # orig.pubkey
        \/ msg.their_pubkey # orig.their_pubkey
        \/ msg.timestamp # orig.timestamp
        \/ msg.nonce # orig.nonce)
    => result.kind = "SignatureVerificationFailed"

(***************************************************************************)
(* Properties of the pairing and of derive_iroh_keypair.                   *)
(***************************************************************************)
\* C7: after a completed pairing both parties hold the same relationship
\* keypair: derive(secret_A, A, B) as A computes it equals
\* derive(secret_B, B, A) as B computes it.
C7_BothDeriveSameKeypair ==
    (pairing.pc = "accepted" /\ pairing.a_derived # None /\ pairing.b_derived # None)
        => Unwrap(pairing.a_derived) = Unwrap(pairing.b_derived)

Accepted(c) ==
    /\ c # NoDerive
    /\ Len(c.secret) = 32
    /\ HexDecodable(c.my)
    /\ HexDecodable(c.their)

\* C8: for a 32-byte secret and two hex public identities, derive(secret, A, B)
\* and derive(secret, B, A) return the same keypair.
C8_OrderIndependent ==
    (/\ Accepted(dcall)
     /\ dprev # NoDerive
     /\ dprev.secret = dcall.secret
     /\ dprev.my = dcall.their
     /\ dprev.their = dcall.my)
    => /\ dcall.result.kind = "Ok"
       /\ dcall.result = dprev.result

\* derive(secret, A, B) after derive(secret, B, A), A a proper prefix of B.
C8_Witness ==
    /\ Accepted(dcall)
    /\ dprev # NoDerive
    /\ dprev.secret = dcall.secret
    /\ dprev.my = dcall.their
    /\ dprev.their = dcall.my
    /\ dcall.my = <<"0", "0">>
    /\ dcall.their = <<"0", "0", "0", "1">>
    /\ dcall.result.kind = "Ok"

\* C9: for one secret and one local identity, two accepted counterparts
\* B # C derive different keypairs.
C9_RelationshipUnique ==
    (/\ Accepted(dcall)
     /\ Accepted(dprev)
     /\ dprev.secret = dcall.secret
     /\ dprev.my = dcall.my
     /\ dprev.their # dcall.their)
    => dcall.result # dprev.result

\* C10: a secret that is not 32 bytes fails with InvalidSecretKeyLength,
\* whatever the pubkeys are; a 32-byte secret with a pubkey that is no hex
\* fails with InvalidPublicKey; neither produces a keypair.
C10_DeriveErrors ==
    dcall # NoDerive =>
        /\ Len(dcall.secret) # 32 => dcall.result = Err("InvalidSecretKeyLength")
        /\ (Len(dcall.secret) = 32 /\ ~(HexDecodable(dcall.my) /\ HexDecodable(dcall.their)))
              => dcall.result = Err("InvalidPublicKey")
        /\ dcall.result.kind # "Ok" => DOMAIN dcall.result = {"kind"}

\* A short secret together with a pubkey that is no hex.
C10_Witness ==
    /\ dcall # NoDerive
    /\ Len(dcall.secret) = 16
    /\ dcall.my = <<"z", "z">>
    /\ dcall.result = Err("InvalidSecretKeyLength")


(***************************************************************************)
(* Properties of IrohNode                                                  *)
(***************************************************************************)
\* C11: start_for_contact on a node that holds an endpoint returns
\* AlreadyRunning and leaves the endpoint, the current contact and the
\* connection table as they were; at most one endpoint is bound at a time.
C11_StartWhileBound ==
    /\ [](alive <= 1)
    /\ [][\A k \in StartSecrets, c \in ContactKeys :
            (Start(k, c) /\ endpoint # None) =>
                /\ nodeResult' = Returned("start", Err("AlreadyRunning"))
                /\ nodeOp' = Idle
                /\ UNCHANGED <<endpoint, current_contact, connections, alive>>]_vars

C11_Witness ==
    /\ nodeResult = Returned("start", Err("AlreadyRunning"))
    /\ endpoint # None
    /\ connections # NoConnections
    /\ alive = 1

\* C12: a connection is in the table only while the node holds an endpoint;
\* stop has emptied the table when it waits for the endpoint to close, and
\* when stop has returned the table is empty and the node holds no endpoint.
C12_NoConnectionOutlivesEndpoint ==
    /\ connections # NoConnections => endpoint # None
    /\ nodeOp.pc = "close" => connections = NoConnections /\ endpoint = None
    /\ nodeResult = Returned("stop", Ok) =>
           connections = NoConnections /\ endpoint = None

\* stop has returned on a node that had made a connection.
C12_Witness ==
    /\ nodeResult = Returned("stop", Ok)
    /\ nodeOp = Idle
    /\ nextConn > 1
    /\ current_contact = None

\* C13: when connect_to_contact succeeds the table holds the new connection
\* under contact_pubkey, in place of the one that was there, and all other
\* entries are as they were.
C13_ConnectStores ==
    [][ConnectDone =>
          /\ DOMAIN connections' = DOMAIN connections \cup {nodeOp.contact_pubkey}
          /\ connections'[nodeOp.contact_pubkey] =
                 [id |-> nextConn, remote |-> nodeOp.node_id]
          /\ \A k \in DOMAIN connections \ {nodeOp.contact_pubkey} :
                 connections'[k] = connections[k]
          /\ nodeResult' = Returned("connect", Ok)]_vars

\* The second of three connections has been replaced by the third, the first
\* is still there.
C13_Witness ==
    /\ nodeResult = Returned("connect", Ok)
    /\ {connections[k].id : k \in DOMAIN connections} = {1, 3}

\* C14: connect_to_contact on a node without an endpoint returns NotStarted,
\* whatever the node id; with an endpoint and a node id that does not parse it
\* returns InvalidNodeId; in both cases nothing is dialed and the table is as
\* it was.
C14_ConnectRefused ==
    [][\A n \in RemoteNodeIds, c \in ContactKeys :
         Connect(n, c) =>
            /\ endpoint = None => nodeResult' = Refused(n, Err("NotStarted"))
            /\ (endpoint # None /\ ~NodeIdParses(n)) =>
                   nodeResult' = Refused(n, Err("InvalidNodeId"))
            /\ (endpoint = None \/ ~NodeIdParses(n)) =>
                   nodeOp' = Idle /\ UNCHANGED <<connections, nextConn, alive>>]_vars

\* NotStarted was returned for a node id that does not parse.
C14_Witness ==
    /\ nodeResult = Refused(BadNodeId, Err("NotStarted"))
    /\ endpoint = None

\* C15: what status() returns describes the node: running says whether it
\* holds an endpoint, node_id is there exactly when running and is the
\* identity derived for the current contact, connected_contacts are the keys
\* of the connection table; status() changes nothing.
C15_StatusSnapshot ==
    /\ [](lastStatus # NoStatus =>
            /\ lastStatus.running = (endpoint # None)
            /\ (lastStatus.node_id # None) = lastStatus.running
            /\ lastStatus.running =>
                   lastStatus.node_id =
                       Some(NodeIdString(derive_iroh_keypair(
                           SecretKeyOf(LocalIdentity), PublicKeyHex(LocalIdentity),
                           Unwrap(current_contact)).public_key))
            /\ lastStatus.connected_contacts = DOMAIN connections
            /\ nodeResult.op = "none" =>  \* no call was made before
                   lastStatus = [running |-> FALSE, node_id |-> None,
                                 relay_url |-> None, connected_contacts |-> {}])
    /\ [][Status => UNCHANGED <<endpoint, current_contact, connections, nodeOp,
                               alive, nextConn>>]_vars

\* status() was called on a node with an endpoint and two connections.
C15_Witness ==
    /\ lastStatus # NoStatus
    /\ lastStatus.running
    /\ Cardinality(lastStatus.connected_contacts) = 2

(***************************************************************************)
(* Properties of ChatManager                                               *)
(***************************************************************************)
MessagesOf(table, contact_pubkey) ==
    IF contact_pubkey \in DOMAIN table THEN table[contact_pubkey].messages ELSE <<>>

OthersUntouched(contact_pubkey) ==
    \A k \in ContactKeys \ {contact_pubkey} :
        /\ (k \in DOMAIN sessions') = (k \in DOMAIN sessions)
        /\ k \in DOMAIN sessions => sessions'[k] = sessions[k]

\* C16: receive_message answers a length prefix above 65536 with
\* MessageTooLarge when it has read the prefix, so it never waits for the
\* payload, and stores nothing; with a prefix of exactly 65536 it goes on to
\* read that many bytes.
C16_ReceiveSizeLimit ==
    /\ [][ReceiveLenRead =>
            LET len == from_be_bytes(chatOp.stream.prefix)
            IN /\ len > MAX_MESSAGE_SIZE =>
                      /\ chatResult' = Received(chatOp.stream, Err("MessageTooLarge"))
                      /\ chatOp' = Idle
                      /\ UNCHANGED sessions
               /\ len = MAX_MESSAGE_SIZE =>
                      /\ chatOp'.pc = "read_data"
                      /\ chatOp'.len = MAX_MESSAGE_SIZE]_vars
    /\ [](chatOp.pc = "read_data" => chatOp.len <= MAX_MESSAGE_SIZE)

\* A payload of exactly 65536 bytes was received and stored, and then a prefix
\* of 65537 was refused.
C16_Witness ==
    /\ chatResult = Received(Frame(Junk(MAX_MESSAGE_SIZE + 1)), Err("MessageTooLarge"))
    /\ chatOp = Idle
    /\ \E c \in DOMAIN sessions :
           /\ Len(sessions[c].messages) = 1
           /\ ~sessions[c].messages[1].is_outgoing
           /\ DataLen(to_wire(sessions[c].messages[1])) = MAX_MESSAGE_SIZE

\* C17: send_message answers a payload above 65536 bytes with MessageTooLarge
\* before it opens a stream, and stores nothing and makes no session; a payload
\* of exactly 65536 bytes goes out, prefix and all, and is stored.
C17_SendSizeLimit ==
    /\ [][\A c \in ContactKeys, t \in SendContents :
            Send(c, t) =>
               LET data == to_wire(new_outgoing(nextMsgId, t, our_pubkey, now))
               IN /\ DataLen(data) > MAX_MESSAGE_SIZE =>
                         /\ chatResult' = Returned("send", Err("MessageTooLarge"))
                         /\ chatOp' = Idle
                         /\ outStream' = NoStream
                         /\ UNCHANGED sessions
                  /\ DataLen(data) = MAX_MESSAGE_SIZE =>
                         /\ chatOp'.pc = "open_uni"
                         /\ chatOp'.data = data]_vars
    /\ [](chatResult = Returned("send", Err("MessageTooLarge")) =>
              outStream = NoStream)
    /\ [](outStream.opened =>
              /\ outStream.prefix # None =>
                     from_be_bytes(Unwrap(outStream.prefix)) <= MAX_MESSAGE_SIZE
              /\ outStream.body # None =>
                     /\ outStream.prefix = Some(to_be_bytes(DataLen(Unwrap(outStream.body))))
                     /\ DataLen(Unwrap(outStream.body)) <= MAX_MESSAGE_SIZE)

\* A payload of exactly 65536 bytes was sent and stored, and then a longer one
\* was refused, for a contact that has no session.
C17_Witness ==
    /\ chatResult = Returned("send", Err("MessageTooLarge"))
    /\ outStream = NoStream
    /\ Cardinality(DOMAIN sessions) = 1
    /\ \E c \in DOMAIN sessions :
           /\ Len(sessions[c].messages) = 1
           /\ sessions[c].messages[1].is_outgoing
           /\ DataLen(to_wire(sessions[c].messages[1])) = MAX_MESSAGE_SIZE

C19_ReceiveStores ==
    [][(ReceiveDataRead /\ chatResult'.ret.kind = "Ok") =>
         LET c    == chatOp.sender_pubkey
             wire == chatOp.stream.body.json
             m    == [id |-> wire.id, content |-> wire.content,
                      sender_pubkey |-> c, timestamp |-> wire.timestamp,
                      is_outgoing |-> FALSE]
         IN /\ c \in DOMAIN sessions'
            /\ sessions'[c].messages = Append(MessagesOf(sessions, c), m)
            /\ chatResult'.ret.message = m
            /\ OthersUntouched(c)]_vars

\* A payload that names another sender was received and stored, while the
\* other contact has a session.
C19_Witness ==
    /\ chatResult.op = "receive"
    /\ chatResult.ret.kind = "Ok"
    /\ chatResult.stream = Frame(ClaimingWire)
    /\ chatResult.ret.message.sender_pubkey = PublicKeyHex(2)
    /\ Cardinality(DOMAIN sessions) = 2
    /\ Len(sessions[PublicKeyHex(2)].messages) = 1

\* C20: clearing the session of a contact leaves that session in place with
\* no messages, and leaves the other sessions and the connection table of the
\* node as they were.
C20_ClearKeepsSlot ==
    [][\A c \in ContactKeys :
         ClearSession(c) =>
            /\ c \in DOMAIN sessions'
            /\ sessions'[c].messages = <<>>
            /\ sessions'[c].contact_pubkey = c
            /\ c \in DOMAIN sessions => sessions'[c].persist = sessions[c].persist
            /\ OthersUntouched(c)
            /\ UNCHANGED connections]_vars

\* A session was cleared; the other contact's session holds a message and the
\* cleared contact's connection is in the table.
C20_Witness ==
    /\ chatResult.op = "clear"
    /\ chatResult.contact_pubkey \in DOMAIN sessions
    /\ sessions[chatResult.contact_pubkey].messages = <<>>
    /\ chatResult.contact_pubkey \in DOMAIN connections
    /\ nextMsgId = MaxMsgs + 1
    /\ TotalStored(sessions, DOMAIN sessions) = 1

\* C22: a message written by to_json and read by from_json is the message
\* written, in every field, whether their_pubkey is absent or present, and
\* verify answers on it as it answers on the message written; a chat message
\* written by to_wire and read by from_wire keeps its id, content and
\* timestamp.
C22_RoundTrip ==
    /\ (codec.kind \in {"parsed", "verified"} /\ codec.as_written) =>
          codec.restored = [kind |-> "Ok", message |-> codec.sent]
    /\ (codec.kind = "verified" /\ codec.as_written) => codec.after = codec.before
    /\ codec.kind = "unwired" =>
          /\ codec.restored.kind = "Ok"
          /\ codec.restored.message.id = codec.sent.id
          /\ codec.restored.message.content = codec.sent.content
          /\ codec.restored.message.timestamp = codec.sent.timestamp

\* An initial message, whose their_pubkey is absent, was written without the
\* member, read back, and verifies before and after.
C22_Witness ==
    /\ codec.kind = "verified"
    /\ codec.as_written
    /\ codec.sent.their_pubkey = None
    /\ "theirPubkey" \notin DOMAIN codec.json
    /\ codec.restored.message.their_pubkey = None
    /\ codec.before = Ok
    /\ codec.after = Ok

\* C29: a message whose timestamp lies after the verifier's clock is never
\* rejected as expired, and is accepted when it is correctly signed and names
\* the verifier; where the freshness check is reached, MessageExpired is the
\* answer exactly when now > timestamp and the u64 difference, which is then
\* defined, exceeds the window.
C29_FutureNeverExpired ==
    Verified =>
        /\ msg.timestamp > now => result.kind # "MessageExpired"
        /\ (CorrectlySigned /\ ~MatchViolated /\ msg.timestamp > now) => result = Ok
        /\ (CorrectlySigned /\ ~MatchViolated) =>
              (result.kind = "MessageExpired" <=>
                  /\ now > msg.timestamp
                  /\ U64Sub(now, msg.timestamp).kind = "Ok"
                  /\ U64Sub(now, msg.timestamp).value > StalenessWindow)

\* A correctly signed message dated after the latest clock reading, accepted.
C29_Witness ==
    /\ Verified
    /\ CorrectlySigned
    /\ ~MatchViolated
    /\ msg.timestamp > now
    /\ now > 0
    /\ U64Sub(now, msg.timestamp).kind = "Overflow"
    /\ result = Ok

\* C30: a message that verify has accepted is not accepted again: no
\* (pubkey, timestamp, nonce) is accepted twice.
C30_NoReplay ==
    \A i, j \in DOMAIN accepted : i # j => accepted[i] # accepted[j]

\* C25: while the endpoint is bound under the keypair derived for a contact,
\* every connection in the table is keyed by that contact.
C25_ConnectionsOfCurrentContact ==
    endpoint # None => DOMAIN connections \subseteq {Unwrap(current_contact)}

\* C21: no two stored contacts have the same counterpart pubkey.
C21_NoDuplicateContact ==
    \A i, j \in DOMAIN contacts :
        i # j => contacts[i].nostr_pubkey # contacts[j].nostr_pubkey

\* Two complete_exchange calls for one counterpart ran at the same time: one
\* has saved its contact, the other loaded the list before that and is about
\* to save its own.
C21_Witness ==
    /\ ceOp[1].pc = "returned"
    /\ ceOp[1].ret.kind = "Ok"
    /\ ceOp[2].pc = "save"
    /\ ceOp[2].contact.nostr_pubkey = ceOp[1].ret.contact.nostr_pubkey
    /\ ceOp[2].contact.id # ceOp[1].ret.contact.id
    /\ contacts = <<ceOp[1].ret.contact>>

\* The endpoint id the keys now cached derive for a counterpart.
CurrentEndpointId(their_pubkey) ==
    derive_endpoint_id(HexDecode(Unwrap(app_keys).secret_key_hex),
                       Unwrap(app_keys).public_key_hex, their_pubkey)

\* C26: the endpoint id of every stored contact is the one derived from the
\* current local secret, the local pubkey and the contact's pubkey.
C26_EndpointIdCurrent ==
    \A k \in DOMAIN contacts :
        /\ app_keys # None
        /\ CurrentEndpointId(contacts[k].nostr_pubkey) =
              [kind |-> "Ok", endpoint_id |-> contacts[k].iroh_endpoint_id]

\* C27: the pubkey of every stored contact is the pubkey of a message that
\* verify has accepted before.
C27_ContactWasVerified ==
    \A k \in DOMAIN contacts : contacts[k].nostr_pubkey \in verified

\* C28: a complete_exchange that ends puts the contact of a new counterpart
\* at index 0 in front of the stored contacts, which stay as they are and in
\* their order, and leaves the stored list as it is for a counterpart that
\* is in it.
C28_NewestFirst ==
    [][\A t \in Tasks :
         (CeSave(t) \/ (CeLoad(t) /\ ceOp'[t].pc = "returned")) =>
            contacts' = IF any(contacts, ceOp[t].contact.nostr_pubkey)
                        THEN contacts
                        ELSE <<ceOp[t].contact>> \o contacts]_vars

\* C23: a stop never runs while a send is in flight.  While a send is in
\* flight no start, stop or connect is, the endpoint is bound and the
\* connection the send uses is the one in the table; the step of stop that
\* takes the endpoint and clears the table happens with no send in flight;
\* and a send that finds no connection fails with nothing written and
\* nothing stored.
C23_StopNeverDuringSend ==
    /\ []((chatOp # Idle /\ chatOp.op = "send") =>
            /\ nodeOp = Idle
            /\ endpoint # None
            /\ chatOp.contact_pubkey \in DOMAIN connections
            /\ connections[chatOp.contact_pubkey] = chatOp.connection)
    /\ [][(endpoint # None /\ endpoint' = None) => (chatOp = Idle /\ chatOp' = Idle)]_vars
    /\ [][SendNotConnected(AppContact) =>
            /\ AppContact \notin DOMAIN connections
            /\ UNCHANGED <<sessions, outStream, issued>>]_vars

\* A message was sent and stored, then the node was stopped, and the next
\* send found no connection.
C23_Witness ==
    /\ chatResult.op = "send"
    /\ chatResult.ret.kind = "NotConnected"
    /\ nodeResult.op = "stop"
    /\ endpoint = None
    /\ connections = NoConnections
    /\ AppContact \in DOMAIN sessions
    /\ Len(sessions[AppContact].messages) = 1
    /\ outStream.opened
    /\ outStream.finished

\* The steps of connect_to_contact, send_message and receive_message other
\* than the one that ends the call with Ok.
ConnectStepNotLast ==
    /\ UNCHANGED chatVars
    /\ \/ \E n \in RemoteNodeIds : Connect(n, AppContact)
       \/ ConnectFail
       \/ Abort /\ nodeOp.pc = "connect"
SendStepNotLast ==
    /\ UNCHANGED nodeVars
    /\ \/ \E t \in AppContents : Send(AppContact, t)
       \/ SendOpened
       \/ SendLenWritten
       \/ SendDataWritten(FALSE)
       \/ (ChatFail \/ ChatAbort) /\ chatOp.op = "send"
ReceiveStepNotLast ==
    /\ UNCHANGED nodeVars
    /\ \/ Receive(AppContact)
       \/ \E f \in AppFrames : ReceiveAccepted(f)
       \/ ReceiveLenRead
       \/ ReceiveDataRead /\ chatResult'.ret.kind # "Ok"
       \/ (ChatFail \/ ChatAbort) /\ chatOp.op = "receive"

\* C24: every step of a connect, send or receive other than the one that
\* ends the call with Ok, a failure or abort at a suspension point among
\* them, leaves the endpoint, the connection table and every session as they
\* are; the table and the sessions change only in the step that ends the
\* call with Ok, after the last network step.
C24_AllOrNothing ==
    /\ [][(ConnectStepNotLast \/ SendStepNotLast \/ ReceiveStepNotLast) =>
            UNCHANGED <<endpoint, connections, sessions>>]_vars
    /\ [][(connections' # connections /\ connections' # NoConnections) =>
            (nodeOp.pc = "connect" /\ nodeResult'.ret = Ok)]_vars
    /\ [][sessions' # sessions =>
            /\ chatOp.pc \in {"write_data", "read_data"}
            /\ chatResult'.ret.kind = "Ok"
            /\ chatOp' = Idle]_vars

\* A send was dropped after the stream was opened and the length written;
\* no session was made and the connection is in the table.
C24_Witness ==
    /\ chatResult = Returned("send", [kind |-> "dropped"])
    /\ outStream.opened
    /\ outStream.prefix # None
    /\ outStream.body = None
    /\ sessions = NoSessions
    /\ AppContact \in DOMAIN connections
    /\ endpoint # None

\* C32: whenever no call on the node is in flight, current_contact is set if
\* and only if the endpoint is bound.
C32_ContactIffBound ==
    nodeOp = Idle => (current_contact # None <=> endpoint # None)

\* C33: the contact a complete_exchange returns with Ok is in the stored
\* list at that moment: its id is the id of a stored contact.
C33_ReturnedIsStored ==
    [][\A t \in Tasks :
         (ceOp[t].pc # "returned" /\ ceOp'[t].pc = "returned"
             /\ ceOp'[t].ret.kind = "Ok") =>
            \E k \in DOMAIN contacts' : contacts'[k].id = ceOp'[t].ret.contact.id]_vars

\* C34: the save that ends a delete_contact(id) leaves in the store the
\* contacts that were stored, without those whose id is id, in their order
\* (the stored list itself when no contact has the id), and delete_contact
\* changes neither the keys nor the connection table nor the sessions.
C34_DeleteExactly ==
    [][((\E u \in 1..MaxContacts : DeleteContact(u)) \/ DelSave) =>
          /\ delOp.pc = "save" => contacts' = retain(contacts, delOp.id)
          /\ UNCHANGED <<app_keys, connections, sessions>>]_vars

\* C31: a history that get_messages returned shows, whenever it is read
\* later, the messages the contact's session held at the call, whatever was
\* sent, received or cleared since; the call changes nothing of the manager
\* or the node, and for a contact with no session it returns no messages and
\* makes no session.
C31_HistorySnapshot ==
    /\ [](history.kind = "returned" => Deref(sessions, history.messages) = historyWas)
    /\ [][\A c \in ContactKeys :
            (GetMessages(c) /\ UNCHANGED restOfHistory) =>
               /\ UNCHANGED <<chatVars, nodeVars>>
               /\ c \notin DOMAIN sessions =>
                     /\ Deref(sessions', history'.messages) = <<>>
                     /\ c \notin DOMAIN sessions']_vars

\* A history of one message was returned, and the session of that contact
\* has got a second message since.
C31_Witness ==
    /\ history.kind = "returned"
    /\ Len(historyWas) = 1
    /\ history.contact_pubkey \in DOMAIN sessions
    /\ Len(sessions[history.contact_pubkey].messages) = 2
    /\ Deref(sessions, history.messages) = historyWas

====
